---- MODULE Spec2Model ----
(***************************************************************************)
(* A model of llm-nodes: the node execution engine and its usage ledger    *)
(* (src/core/LLMNode.ts), pipeline composition (LLMNode.pipe), the         *)
(* adapters' stream normalisation (src/core/providers/*.ts) and the batch  *)
(* round trip (createBatch / retrieveBatch).                               *)
(*                                                                         *)
(* The specifications share the module's variables:                        *)
(*   Spec        nodes and concurrent execute calls                        *)
(*   SpecPipe    one caller builds pipelines with pipe and runs them       *)
(*   SpecStream  one adapter's invokeStream over a vendor event sequence   *)
(*   SpecOpenAI  the OpenAI adapter's invoke next to the streams           *)
(*   SpecThink   the usage the Anthropic and Bedrock invoke return         *)
(*   SpecNode    StreamNode.stream, its consumer and the node's ledger     *)
(*   SpecBatch   createBatch / vendor processing / retrieveBatch           *)
(*   SpecMeta    the batch round trip with a second node                   *)
(*   SpecCorr    the customId round trip of large batches                  *)
(*   SpecConfig  calls on nodes whose config leaves maxTokens unset        *)
(* JavaScript is single-threaded: a handler runs without interruption      *)
(* between two awaits, so every action below is one such segment.          *)
(***************************************************************************)
EXTENDS Integers, Sequences, FiniteSets, TLC

(***************************************************************************)
(* Bounds                                                                  *)
(***************************************************************************)
MaxTok == 1          \* the largest input token count a vendor reports
MaxInvokes == 3      \* provider.invoke calls started in one behaviour
MaxTasks == 2        \* concurrent callers
MaxDepth == 3        \* stages in a pipeline built by pipe
MaxEvents == 3       \* vendor events delivered to one invokeStream call
MaxInputs == 2       \* inputs of one createBatch call
MaxCorrInputs == 13  \* inputs of one createBatch call when only ids are followed
MaxRetrievals == 2   \* retrieveBatch calls that find the batch completed
MaxStreams == 1      \* stream calls on one StreamNode
MaxContentLen == 9   \* characters of the text content of one vendor message

(***************************************************************************)
(* Optional values (TypeScript `T | undefined`)                            *)
(***************************************************************************)
None == <<>>
Some(v) == <<v>>
IsSome(o) == o # <<>>
Get(o) == o[1]

(***************************************************************************)
(* Nodes and executables                                                   *)
(***************************************************************************)
Nodes == {"A", "B", "C"}
Tasks == 1..MaxTasks

\* llmConfig.provider / llmConfig.model of each node (LLMNode constructor)
llmConfig(n) ==
    CASE n = "A" -> [provider |-> "openai", model |-> "gpt-4o"]
      [] n = "B" -> [provider |-> "anthropic", model |-> "claude-haiku-4-5"]
      [] OTHER   -> [provider |-> "bedrock", model |-> "claude-sonnet-4-5"]

\* An LLMNode instance, seen as an IExecutable value.
Leaf(n) == [kind |-> "node", name |-> n, next |-> <<>>]

\* An IExecutable that is not an LLMNode: it has execute and nothing else.
Plain == [kind |-> "plain", name |-> "P", next |-> <<>>]

\* The object literal returned by LLMNode.pipe: it closes over self (always
\* an LLMNode) and nextNode.
pipe(self, nextNode) == [kind |-> "pipe", name |-> self, next |-> <<nextNode>>]

\* The members each kind of executable has.
Members(x) ==
    CASE x.kind = "node" ->
            {"execute", "pipe", "getUsageRecords", "getTotalTokenUsage",
             "clearUsageRecords", "createBatch", "retrieveBatch", "getPrompt"}
      [] x.kind = "pipe" -> {"execute", "getUsageRecords", "getTotalTokenUsage"}
      [] OTHER -> {"execute"}

RECURSIVE Depth(_)
Depth(x) == IF x.kind = "pipe" THEN 1 + Depth(x.next[1]) ELSE 1

\* The leaf stages of an executable, in execution order.
RECURSIVE Stages(_)
Stages(x) == IF x.kind = "pipe" THEN <<x.name>> \o Stages(x.next[1]) ELSE <<x.name>>

(***************************************************************************)
(* Values that flow through execute                                        *)
(***************************************************************************)
CallerInputs == {"in"}
Contents == {"c1", "bad"}

\* The node's ResponseParser: a function of the raw text that may throw.
parserThrows(content) == content = "bad"
parser(content) == IF content = "c1" THEN "p1" ELSE "p0"

\* response.usage as the providers report it: two distinct values, so that
\* input and output counts differ and calls can be told apart.
PlainResults == {"p2"}

UsageValues == { [inputTokens |-> MaxTok, outputTokens |-> MaxTok + 1],
                 [inputTokens |-> 0, outputTokens |-> MaxTok] }
Responses == [content : Contents, usage : {None} \cup {Some(u) : u \in UsageValues}]

VARIABLES
    usageRecords,   \* [Nodes -> Seq(UsageRecord)]: LLMNode.usageRecords
    built,          \* None or Some(composite): the pipeline the caller holds
    lastPipe,       \* None or Some([recv, arg, ok]): outcome of the last pipe call
    pc,             \* [Tasks -> position of the caller's execute call]
    called,         \* [Tasks -> the executable whose execute the caller called]
    cur,            \* [Tasks -> name of the stage whose execute is running]
    stack,          \* [Tasks -> Seq(executable)]: pending nextNode of enclosing composites
    value,          \* [Tasks -> last value: the input given / the result returned]
    events,         \* [Tasks -> Seq(event)]: what the current call has done, in order
    nInvokes,       \* provider.invoke calls started so far
    reported,       \* [Nodes -> [n, inputTokens, outputTokens]]: the number of
                    \* responses with usage, and the tokens they reported, that
                    \* the node received since its last clearUsageRecords
    clearedInFlight \* the last clearUsageRecords emptied a ledger that held
                    \* records while an execute call on that node waited for
                    \* its provider, and no caller has called execute since

execVars == <<usageRecords, built, lastPipe, pc, called, cur, stack, value, events,
              nInvokes, reported, clearedInFlight>>

VARIABLES
    sAdapter,       \* the adapter whose invokeStream runs
    sModel,         \* config.model of the call
    sStyle,         \* the generator that is running: "anthropic", "bedrock",
                    \* "google", or for OpenAI "responses" / "chat"
    sPhase,         \* "idle", "creating", "streaming", "ended", "failed"
    sError,         \* what the generator threw, "" if nothing
    chunks,         \* Seq(StreamChunk): the chunks invokeStream has yielded
    sTokenUsage,    \* the generator's local tokenUsage accumulator
    nEvents,        \* vendor events delivered to this call
    sawUsage,       \* the vendor's current raw stream has reported usage
    sCalls,         \* the vendor API calls this invokeStream has started:
                    \* [api, at, during, caught], with the number of chunks
                    \* yielded before the call and, for a call made by the
                    \* catch block, the phase that failed and the status caught
    iUsage,         \* the local `usage` of a single-shot invoke with
                    \* config.stream = true that is fed the same vendor events
    sShape          \* how far the events of the raw stream follow the order
                    \* message_start with usage, content, message_delta with
                    \* usage: "none", "started", "delta", "other"

streamVars == <<sAdapter, sModel, sStyle, sPhase, sError, chunks, sTokenUsage,
                nEvents, sawUsage, sCalls, iUsage, sShape>>

VARIABLES
    bConfig,        \* llmConfig of the node that runs batches: [provider, model]
    bNode,          \* the node object the caller uses: 1 is the node it built
                    \* first, 2 a node it built later with the same llmConfig
    bUsageRecords,  \* that node's usageRecords
    bInputs,        \* number of inputs of the last createBatch call
    bRequests,      \* Seq(ProviderBatchRequest) handed to provider.createBatch
    bMeta,          \* None or Some(BatchMetadata) returned by createBatch
    bError,         \* the message of what the last createBatch / retrieveBatch
                    \* threw, as a sequence of its parts; <<>> if nothing
    bResult,        \* None or Some(BatchResult) of the last retrieveBatch
    bSeen,          \* None or Some([vendor, response, node, completed]): the
                    \* vendor's batch as the last retrieveBatch found it, what
                    \* the adapter returned, the node the call was made on and
                    \* how many calls on that node found the batch completed
    vBatch,         \* None or Some(the vendor's batch): status, endpoint, ids,
                    \* output entries, error-file entries
    corr            \* None or Some([pos, customId, index]): one item's round trip

batchVars == <<bConfig, bNode, bUsageRecords, bInputs, bRequests, bMeta, bError, bResult, bSeen,
               vBatch, corr>>

VARIABLES
    maxTokensSet    \* whether the llmConfig the nodes were built with has maxTokens

configVars == <<maxTokensSet>>

VARIABLES
    iPhase,         \* OpenAIProvider.invoke: "idle", "responses" / "chat" (waiting
                    \* for that API's create call), "returned", "failed"
    iCalls,         \* the vendor API calls this invoke has started: [api, caught]
    iResult,        \* None, or Some([ok, api, status]): the response invoke
                    \* returned and the API it came from, or the error it threw
    mConfig,        \* None, or Some([provider, thinking]): the config of the
                    \* last invoke on the Anthropic or Bedrock adapter
    mResponse       \* None while that invoke waits for the vendor, else
                    \* Some(LLMResponse): [content, usage, raw]

invokeVars == <<iPhase, iCalls, iResult, mConfig, mResponse>>

VARIABLES
    snConfig,       \* llmConfig of the StreamNode: [provider, model]
    snPhase,        \* the generator stream() returned: "none" (no call yet),
                    \* "start" (created, body not begun), "awaiting" (in the
                    \* for-await, waiting for the adapter), "yielded" (suspended
                    \* at `yield chunk`), "done", "threw", "returned"
    snStreams,      \* stream calls made so far
    snPrompts,      \* prompts rendered by generatePrompt so far
    snPos,          \* chunks of the adapter the node has taken in this call
    snYielded,      \* Seq(StreamChunk): what this call has yielded to its consumer;
                    \* a chunk's tokenUsage is a reference into heap
    snFinalUsage,   \* the local finalUsage: None or Some(reference)
    snError,        \* the message of what the generator threw, in parts
    heap,           \* Seq(TokenUsage): the TokenUsage objects, by reference
    snLedger,       \* the node's usageRecords; a record's tokenUsage is a reference
    snExhausted     \* stream calls consumed to exhaustion since the last clear

nodeVars == <<snConfig, snPhase, snStreams, snPrompts, snPos, snYielded, snFinalUsage,
              snError, heap, snLedger, snExhausted>>

nonExecVars == <<streamVars, batchVars, configVars, invokeVars, nodeVars>>
nonStreamVars == <<execVars, batchVars, configVars, invokeVars, nodeVars>>
nonBatchVars == <<execVars, streamVars, configVars, invokeVars, nodeVars>>
nonNodeVars == <<execVars, streamVars, batchVars, configVars, invokeVars>>
nonInvokeVars == <<execVars, streamVars, batchVars, configVars, nodeVars>>

vars == <<execVars, streamVars, batchVars, configVars, invokeVars, nodeVars>>

\* The adapters that throw when config.maxTokens is missing
mandatesMaxTokensMutNone(provider) == FALSE
mandatesMaxTokens(provider) == provider \in {"anthropic", "bedrock"}

\* The message of the error invoke and invokeStream throw for it
maxTokensMessage(provider) ==
    IF provider = "anthropic" THEN "maxTokens is required for Anthropic models"
    ELSE "maxTokens is required for Bedrock models"

(***************************************************************************)
(* The usage ledger                                                        *)
(***************************************************************************)
\* LLMNode.recordUsage: push one record (the timestamp is not modelled).
recordUsageMutTwice(records, config, tokenUsage) ==
    records \o << [provider |-> config.provider, model |-> config.model,
                   tokenUsage |-> tokenUsage],
                  [provider |-> config.provider, model |-> config.model,
                   tokenUsage |-> tokenUsage] >>
recordUsage(records, config, tokenUsage) ==
    Append(records, [provider |-> config.provider,
                     model |-> config.model,
                     tokenUsage |-> tokenUsage])

\* Array.prototype.reduce of getTotalTokenUsage, left to right.
RECURSIVE reduceUsage(_, _)
reduceUsage(records, total) ==
    IF records = <<>> THEN total
    ELSE reduceUsage(Tail(records),
            [inputTokens |-> total.inputTokens + Head(records).tokenUsage.inputTokens,
             outputTokens |-> total.outputTokens + Head(records).tokenUsage.outputTokens])

\* LLMNode.getTotalTokenUsage
getTotalTokenUsage(records) ==
    LET usage == reduceUsage(records, [inputTokens |-> 0, outputTokens |-> 0])
    IN [inputTokens |-> usage.inputTokens,
        outputTokens |-> usage.outputTokens,
        totalTokens |-> usage.inputTokens + usage.outputTokens]

\* LLMNode.getUsageRecords: a copy of the array
getUsageRecords(records) == records

\* getUsageRecords of any executable that has the member.
RECURSIVE pipeGetUsageRecords(_)
pipeGetUsageRecordsMutSelfOnly(x) ==
    getUsageRecords(usageRecords[x.name])
pipeGetUsageRecordsMutPushesAlways(x) ==
    IF x.kind = "node" THEN getUsageRecords(usageRecords[x.name])
    ELSE LET records == getUsageRecords(usageRecords[x.name])
             nextNode == x.next[1]
         IN IF "getUsageRecords" \in Members(nextNode)
            THEN records \o pipeGetUsageRecords(nextNode)
            ELSE records \o records
pipeGetUsageRecords(x) ==
    IF x.kind = "node" THEN getUsageRecords(usageRecords[x.name])
    ELSE LET records == getUsageRecords(usageRecords[x.name])
             nextNode == x.next[1]
         IN IF "getUsageRecords" \in Members(nextNode)
            THEN records \o pipeGetUsageRecords(nextNode)
            ELSE records

\* getTotalTokenUsage of any executable that has the member.
RECURSIVE pipeGetTotalTokenUsage(_)
pipeGetTotalTokenUsageMutNoRecompute(x) ==
    IF x.kind = "node" THEN getTotalTokenUsage(usageRecords[x.name])
    ELSE LET usage == getTotalTokenUsage(usageRecords[x.name])
             nextNode == x.next[1]
         IN IF "getTotalTokenUsage" \in Members(nextNode)
            THEN LET nextUsage == pipeGetTotalTokenUsage(nextNode)
                 IN [inputTokens |-> usage.inputTokens + nextUsage.inputTokens,
                     outputTokens |-> usage.outputTokens + nextUsage.outputTokens,
                     totalTokens |-> usage.totalTokens]
            ELSE usage
pipeGetTotalTokenUsage(x) ==
    IF x.kind = "node" THEN getTotalTokenUsage(usageRecords[x.name])
    ELSE LET usage == getTotalTokenUsage(usageRecords[x.name])
             nextNode == x.next[1]
         IN IF "getTotalTokenUsage" \in Members(nextNode)
            THEN LET nextUsage == pipeGetTotalTokenUsage(nextNode)
                     inputTokens == usage.inputTokens + nextUsage.inputTokens
                     outputTokens == usage.outputTokens + nextUsage.outputTokens
                 IN [inputTokens |-> inputTokens,
                     outputTokens |-> outputTokens,
                     totalTokens |-> inputTokens + outputTokens]
            ELSE usage

(***************************************************************************)
(* LLMNode.execute                                                         *)
(***************************************************************************)
Event(e, n, v, u) == [ev |-> e, node |-> n, val |-> v, usage |-> u]

\* A JavaScript error value: its constructor's name, its message and, when
\* it wraps another error, that error.
JSError(name, message, cause) == [name |-> name, message |-> message, cause |-> cause]

\* What the node's parser throws on a text it cannot parse
parserError(content) == JSError("SyntaxError", content, None)

\* What provider.invoke rejects with when the vendor call fails
providerError == JSError("APIError", "500", None)

\* LLMNode.execute from the point where `await this.provider.invoke(...)`
\* resolves with `response` to the return (or throw) of the method: record
\* the usage if the response has one, then apply the parser.
executeResumeMutNoRecord(records, n, response) ==
    [records |-> records,
     threw |-> parserThrows(response.content),
     result |-> parser(response.content),
     events |-> << Event("invoke_returned", n, "", None) >>
                \o (IF parserThrows(response.content)
                    THEN << Event("threw", n, parserError(response.content), None) >>
                    ELSE << Event("result_returned", n, parser(response.content), None) >>)]
executeResumeMutParseFirst(records, n, response) ==
    LET threw == parserThrows(response.content)
        recorded == IsSome(response.usage) /\ ~threw
        tokenUsage == [inputTokens |-> Get(response.usage).inputTokens,
                       outputTokens |-> Get(response.usage).outputTokens]
    IN [records |-> IF recorded THEN recordUsage(records, llmConfig(n), tokenUsage)
                    ELSE records,
        threw |-> threw,
        result |-> parser(response.content),
        events |-> << Event("invoke_returned", n, "", None) >>
                   \o (IF recorded
                       THEN << Event("record_appended", n, "", Some(tokenUsage)) >>
                       ELSE << >>)
                   \o (IF threw
                       THEN << Event("threw", n, parserError(response.content), None) >>
                       ELSE << Event("result_returned", n, parser(response.content), None) >>)]
executeResume(records, n, response) ==
    LET recorded == IsSome(response.usage)
        tokenUsage == [inputTokens |-> Get(response.usage).inputTokens,
                       outputTokens |-> Get(response.usage).outputTokens]
        records1 == IF recorded THEN recordUsage(records, llmConfig(n), tokenUsage)
                    ELSE records
        threw == parserThrows(response.content)
    IN [records |-> records1,
        threw |-> threw,
        result |-> parser(response.content),
        events |-> << Event("invoke_returned", n, "", None) >>
                   \o (IF recorded
                       THEN << Event("record_appended", n, "", Some(tokenUsage)) >>
                       ELSE << >>)
                   \o (IF threw
                       THEN << Event("threw", n, parserError(response.content), None) >>
                       ELSE << Event("result_returned", n, parser(response.content), None) >>)]

\* x.execute(input) is called on behalf of task t, with the nextNodes of the
\* enclosing composites in stk.  A composite's execute calls self.execute
\* at once (LLMNode.ts:283); an LLMNode's execute renders the prompt and
\* suspends in provider.invoke (LLMNode.ts:100-103).
\* provider.invoke throws before its vendor call when the adapter requires
\* config.maxTokens and it is missing; the rejection leaves execute at the
\* await like any other.
Begin(t, x, input, stk, evs) ==
    LET target == IF x.kind = "pipe" THEN Leaf(x.name) ELSE x
        stk1 == IF x.kind = "pipe" THEN <<x.next[1]>> \o stk ELSE stk
        missing == /\ target.kind = "node"
                   /\ mandatesMaxTokens(llmConfig(target.name).provider)
                   /\ ~maxTokensSet
    IN /\ (target.kind = "node" /\ ~missing) => nInvokes < MaxInvokes
       /\ nInvokes' = IF target.kind = "node" /\ ~missing THEN nInvokes + 1 ELSE nInvokes
       /\ pc' = [pc EXCEPT ![t] = IF missing THEN "failed"
                                  ELSE IF target.kind = "node" THEN "invoking" ELSE "plain"]
       /\ cur' = [cur EXCEPT ![t] = target.name]
       /\ stack' = [stack EXCEPT ![t] = stk1]
       /\ value' = [value EXCEPT ![t] = input]
       /\ events' = [events EXCEPT ![t] =
             Append(evs, Event("start", target.name, input, None))
             \o (IF missing
                 THEN <<Event("threw", target.name,
                              JSError("Error",
                                      maxTokensMessage(llmConfig(target.name).provider),
                                      None), None)>>
                 ELSE <<>>)]

\* The value a stage's execute resolved with reaches its awaiter: the caller
\* when no composite encloses the stage, else the composite's execute.
Resolve(t, result, evs) ==
    /\ pc' = [pc EXCEPT ![t] = IF stack[t] = <<>> THEN "done" ELSE "between"]
    /\ value' = [value EXCEPT ![t] = result]
    /\ events' = [events EXCEPT ![t] = evs]
    /\ UNCHANGED <<cur, stack, nInvokes>>

\* A stage's execute rejected: every enclosing `await` rethrows, so the
\* caller's promise rejects and no pending nextNode is started.
Reject(t, evs) ==
    /\ pc' = [pc EXCEPT ![t] = "failed"]
    /\ events' = [events EXCEPT ![t] = evs]
    /\ UNCHANGED <<cur, stack, value, nInvokes>>

Callables == {Leaf(n) : n \in Nodes} \cup (IF IsSome(built) THEN {Get(built)} ELSE {})

\* The caller's last pipe call was a TypeError, which nothing catches: the
\* caller's script has ended.
PipeThrew == IsSome(lastPipe) /\ ~Get(lastPipe).ok

\* A caller calls x.execute(input).
Execute(t, x, input) ==
    /\ pc[t] \in {"idle", "done", "failed"}
    /\ ~PipeThrew
    /\ x \in Callables
    /\ called' = [called EXCEPT ![t] = x]
    /\ Begin(t, x, input, <<>>, <<>>)
    /\ clearedInFlight' = FALSE
    /\ UNCHANGED <<usageRecords, built, lastPipe, reported, nonExecVars>>

\* provider.invoke resolves with response; execute runs to its end.
InvokeReturns(t, response) ==
    /\ pc[t] = "invoking"
    /\ LET n == cur[t]
           r == executeResume(usageRecords[n], n, response)
       IN /\ usageRecords' = [usageRecords EXCEPT ![n] = r.records]
          /\ reported' = [reported EXCEPT ![n] =
                [n |-> @.n + (IF IsSome(response.usage) THEN 1 ELSE 0),
                 inputTokens |-> @.inputTokens +
                    (IF IsSome(response.usage) THEN Get(response.usage).inputTokens ELSE 0),
                 outputTokens |-> @.outputTokens +
                    (IF IsSome(response.usage) THEN Get(response.usage).outputTokens ELSE 0)]]
          /\ IF r.threw
             THEN Reject(t, events[t] \o r.events)
             ELSE Resolve(t, r.result, events[t] \o r.events)
    /\ UNCHANGED <<built, lastPipe, called, clearedInFlight, nonExecVars>>

\* provider.invoke rejects; the error leaves execute at the await.
InvokeFails(t) ==
    /\ pc[t] = "invoking"
    /\ Reject(t, Append(events[t], Event("threw", cur[t], providerError, None)))
    /\ UNCHANGED <<usageRecords, built, lastPipe, called, reported, clearedInFlight, nonExecVars>>

\* The execute of a stage that is not an LLMNode settles.
PlainReturns(t, result) ==
    /\ pc[t] = "plain"
    /\ Resolve(t, result, Append(events[t], Event("result_returned", cur[t], result, None)))
    /\ UNCHANGED <<usageRecords, built, lastPipe, called, reported, clearedInFlight, nonExecVars>>

PlainFails(t) ==
    /\ pc[t] = "plain"
    /\ Reject(t, Append(events[t], Event("threw", cur[t], JSError("Error", "", None), None)))
    /\ UNCHANGED <<usageRecords, built, lastPipe, called, reported, clearedInFlight, nonExecVars>>

\* The composite's execute resumes after `await self.execute(input)` and
\* calls nextNode.execute(intermediateResult) (LLMNode.ts:283-284).
pipeExecuteNextMutInput(t) ==
    /\ pc[t] = "between"
    /\ Begin(t, Head(stack[t]), "in", Tail(stack[t]), events[t])
    /\ UNCHANGED <<usageRecords, built, lastPipe, called, reported, clearedInFlight, nonExecVars>>
pipeExecuteNext(t) ==
    /\ pc[t] = "between"
    /\ Begin(t, Head(stack[t]), value[t], Tail(stack[t]), events[t])
    /\ UNCHANGED <<usageRecords, built, lastPipe, called, reported, clearedInFlight, nonExecVars>>

\* LLMNode.clearUsageRecords
clearUsageRecordsMutAll(n) ==
    /\ usageRecords' = [m \in Nodes |-> <<>>]
    /\ reported' = [m \in Nodes |-> [n |-> 0, inputTokens |-> 0, outputTokens |-> 0]]
    /\ clearedInFlight' = (/\ usageRecords[n] # <<>>
                           /\ \E t \in Tasks : pc[t] = "invoking" /\ cur[t] = n)
    /\ UNCHANGED <<built, lastPipe, pc, called, cur, stack, value, events, nInvokes,
                   nonExecVars>>
clearUsageRecords(n) ==
    /\ usageRecords' = [usageRecords EXCEPT ![n] = <<>>]
    /\ reported' = [reported EXCEPT ![n] = [n |-> 0, inputTokens |-> 0, outputTokens |-> 0]]
    /\ clearedInFlight' = (/\ usageRecords[n] # <<>>
                           /\ \E t \in Tasks : pc[t] = "invoking" /\ cur[t] = n)
    /\ UNCHANGED <<built, lastPipe, pc, called, cur, stack, value, events, nInvokes,
                   nonExecVars>>

\* The caller evaluates recv.pipe(arg).  Only an LLMNode has the member
\* pipe; on any other receiver the call is a TypeError.  The caller builds
\* its pipelines before it runs anything.
PipeReceivers == {Leaf("A"), Leaf("B")} \cup (IF IsSome(built) THEN {Get(built)} ELSE {})
PipeArgs == {Leaf("B"), Leaf("C"), Plain} \cup (IF IsSome(built) THEN {Get(built)} ELSE {})

Pipe(recv, arg) ==
    /\ nInvokes = 0
    /\ ~PipeThrew
    /\ recv \in PipeReceivers
    /\ arg \in PipeArgs
    /\ Depth(arg) < MaxDepth
    /\ IF "pipe" \in Members(recv)
       THEN /\ built' = Some(pipe(recv.name, arg))
            /\ lastPipe' = Some([recv |-> recv, arg |-> arg, ok |-> TRUE])
       ELSE /\ built' = built
            /\ lastPipe' = Some([recv |-> recv, arg |-> arg, ok |-> FALSE])
    /\ UNCHANGED <<usageRecords, pc, called, cur, stack, value, events, nInvokes, reported,
                   clearedInFlight, nonExecVars>>

(***************************************************************************)
(* Stream normalisation: the adapters' invokeStream                        *)
(***************************************************************************)
Adapters == {"anthropic", "openai", "bedrock", "google"}
Models == {"gpt-4o", "gpt-3.5-turbo"}

\* OpenAIProvider.shouldUseResponsesAPI: the model name contains one of
\* "gpt-5", "gpt-4o", "o1", "o3", "o4".
shouldUseResponsesAPI(model) == model \in {"gpt-4o"}

\* A number field the vendor left out (undefined / null).
NoNum == -1
\* `x || 0` and `x ?? 0` on a count
OrZero(x) == IF x = NoNum THEN 0 ELSE x

\* A text field: a non-empty string, the empty string, or left out.
Undefined == "undefined"
Texts == {"x", "", Undefined}
\* `if (text)`
Truthy(text) == text # "" /\ text # Undefined

\* The usage object of a vendor event: absent, complete, or with the input
\* count left out.
VendorUsages == { None,
                  Some([input |-> MaxTok, output |-> MaxTok + 1]),
                  Some([input |-> NoNum, output |-> MaxTok]) }

VendorEvent(type, text, usage) == [type |-> type, text |-> text, usage |-> usage]

\* RawMessageStreamEvent of the Anthropic SDK (also used by Bedrock)
MessageStreamEvents ==
    {VendorEvent("message_start", Undefined, u) : u \in VendorUsages}
    \cup {VendorEvent("content_block_delta.text_delta", x, None) : x \in Texts}
    \cup {VendorEvent("content_block_delta.thinking_delta", "x", None)}
    \cup {VendorEvent("message_delta", Undefined, u) : u \in VendorUsages}
    \cup {VendorEvent("content_block_stop", Undefined, None)}

\* chat.completions chunks: choices[0].delta.content and usage
ChatChunks == {VendorEvent("chunk", x, u) : x \in Texts, u \in VendorUsages}

\* Responses API stream events
ResponsesEvents ==
    {VendorEvent("response.output_text.delta", x, None) : x \in Texts}
    \cup {VendorEvent("response.completed", Undefined, u) : u \in VendorUsages}
    \cup {VendorEvent("response.created", Undefined, None)}

\* generateContentStream chunks: candidates[0].content.parts[0].text and
\* usageMetadata
GoogleChunks == {VendorEvent("chunk", x, u) : x \in Texts, u \in VendorUsages}

EventsOf(style) ==
    CASE style \in {"anthropic", "bedrock"} -> MessageStreamEvents
      [] style = "chat" -> ChatChunks
      [] style = "responses" -> ResponsesEvents
      [] OTHER -> GoogleChunks

\* An event that carries a usage object.
ReportsUsage(event) == IsSome(event.usage)

\* const tokenUsage: TokenUsage = { inputTokens: 0, outputTokens: 0 }
newTokenUsageMutUnset == [inputTokens |-> NoNum, outputTokens |-> NoNum]
newTokenUsage == [inputTokens |-> 0, outputTokens |-> 0]

TextChunk(text) == [text |-> text, tokenUsage |-> None]
Step(usage, yield) == [tokenUsage |-> usage, yield |-> yield]

\* AnthropicProvider.invokeStream: the body of the for-await loop
anthropicStreamEvent(usage, event) ==
    CASE event.type = "message_start" ->
            Step([usage EXCEPT !.inputTokens =
                    IF IsSome(event.usage) THEN OrZero(Get(event.usage).input) ELSE 0], <<>>)
      [] event.type = "content_block_delta.text_delta" ->
            Step(usage, <<TextChunk(event.text)>>)
      [] event.type = "message_delta" ->
            IF IsSome(event.usage)
            THEN Step([usage EXCEPT !.outputTokens = OrZero(Get(event.usage).output)], <<>>)
            ELSE Step(usage, <<>>)
      [] OTHER -> Step(usage, <<>>)

\* BedrockProvider.invokeStream: the body of the for-await loop
bedrockStreamEvent(usage, event) ==
    CASE event.type = "message_start" ->
            Step([usage EXCEPT !.inputTokens =
                    IF IsSome(event.usage) THEN OrZero(Get(event.usage).input) ELSE 0], <<>>)
      [] event.type = "content_block_delta.text_delta" ->
            Step(usage, <<TextChunk(event.text)>>)
      [] event.type = "message_delta" ->
            IF IsSome(event.usage)
            THEN Step([usage EXCEPT !.outputTokens = OrZero(Get(event.usage).output)], <<>>)
            ELSE Step(usage, <<>>)
      [] OTHER -> Step(usage, <<>>)

\* OpenAIProvider.streamChatCompletions: the body of the for-await loop
streamChatCompletionsChunk(usage, chunk) ==
    Step(IF IsSome(chunk.usage)
         THEN [inputTokens |-> OrZero(Get(chunk.usage).input),
               outputTokens |-> OrZero(Get(chunk.usage).output)]
         ELSE usage,
         IF Truthy(chunk.text) THEN <<TextChunk(chunk.text)>> ELSE <<>>)

\* OpenAIProvider.streamResponsesAPI: the body of the for-await loop
streamResponsesAPIEvent(usage, event) ==
    CASE event.type = "response.output_text.delta" ->
            Step(usage, <<TextChunk(IF Truthy(event.text) THEN event.text ELSE "")>>)
      [] event.type = "response.completed" ->
            IF IsSome(event.usage)
            THEN Step([inputTokens |-> OrZero(Get(event.usage).input),
                       outputTokens |-> OrZero(Get(event.usage).output)], <<>>)
            ELSE Step(usage, <<>>)
      [] OTHER -> Step(usage, <<>>)

\* GoogleGenAIProvider.invokeStream: the body of the for-await loop
googleStreamChunk(usage, chunk) ==
    Step(IF IsSome(chunk.usage)
         THEN [inputTokens |-> OrZero(Get(chunk.usage).input),
               outputTokens |-> OrZero(Get(chunk.usage).output)]
         ELSE usage,
         IF Truthy(chunk.text) THEN <<TextChunk(chunk.text)>> ELSE <<>>)

streamEvent(style, usage, event) ==
    CASE style = "anthropic" -> anthropicStreamEvent(usage, event)
      [] style = "bedrock" -> bedrockStreamEvent(usage, event)
      [] style = "chat" -> streamChatCompletionsChunk(usage, event)
      [] style = "responses" -> streamResponsesAPIEvent(usage, event)
      [] OTHER -> googleStreamChunk(usage, event)

\* AnthropicProvider.invoke, stream branch: the body of the for-await loop
\* as far as it touches `usage` (None stands for undefined)
anthropicInvokeEvent(usage, event) ==
    CASE event.type = "message_start" -> event.usage
      [] event.type = "message_delta" -> IF IsSome(event.usage) THEN event.usage ELSE usage
      [] OTHER -> usage

\* BedrockProvider.invoke, stream branch: the same loop; a message_delta
\* adds its output_tokens to the count held so far.
bedrockInvokeEvent(usage, event) ==
    CASE event.type = "message_start" -> event.usage
      [] event.type = "message_delta" ->
            IF IsSome(event.usage)
            THEN Some([input |-> IF IsSome(usage) THEN Get(usage).input ELSE NoNum,
                       output |-> (IF IsSome(usage) THEN OrZero(Get(usage).output) ELSE 0)
                                  + OrZero(Get(event.usage).output)])
            ELSE usage
      [] OTHER -> usage

invokeEvent(style, usage, event) ==
    CASE style = "anthropic" -> anthropicInvokeEvent(usage, event)
      [] style = "bedrock" -> bedrockInvokeEvent(usage, event)
      [] OTHER -> usage

\* The usage of the LLMResponse invoke returns:
\* usage?.input_tokens || 0 and usage?.output_tokens || 0
invokeUsage(usage) ==
    [inputTokens |-> IF IsSome(usage) THEN OrZero(Get(usage).input) ELSE 0,
     outputTokens |-> IF IsSome(usage) THEN OrZero(Get(usage).output) ELSE 0]

\* The order of the vendor's events so far: a message_start with usage (a
\* Usage object, whose input_tokens is a number) first, then content, then
\* message_delta events with usage (whose input_tokens may be missing).
shapeStep(shape, event) ==
    CASE event.type = "message_start" ->
            IF shape = "none" /\ IsSome(event.usage) /\ Get(event.usage).input # NoNum
            THEN "started" ELSE "other"
      [] event.type = "message_delta" ->
            IF shape \in {"started", "delta"} /\ IsSome(event.usage) THEN "delta" ELSE "other"
      [] event.type = "content_block_delta.text_delta" ->
            IF shape = "started" THEN "started" ELSE "other"
      [] OTHER -> IF shape = "none" THEN "other" ELSE shape

\* yield { text: "", tokenUsage } after the loop, the same in every adapter
terminalChunkMutNoUsage(usage) == [text |-> "", tokenUsage |-> None]
terminalChunk(usage) == [text |-> "", tokenUsage |-> Some(usage)]

StreamInit ==
    /\ sAdapter = "anthropic"
    /\ sModel = "gpt-4o"
    /\ sStyle = "anthropic"
    /\ sPhase = "idle"
    /\ sError = ""
    /\ chunks = <<>>
    /\ sTokenUsage = newTokenUsage
    /\ nEvents = 0
    /\ sawUsage = FALSE
    /\ sCalls = <<>>
    /\ iUsage = None
    /\ sShape = "none"

(***************************************************************************)
(* Correlation ids: `req-${i}` and parseInt(customId.replace("req-", ""))  *)
(***************************************************************************)
\* Strings whose characters matter are sequences of one-character strings.
DigitChars == <<"0", "1", "2", "3", "4", "5", "6", "7", "8", "9">>
IsDigit(c) == \E d \in 1..10 : DigitChars[d] = c
DigitValue(c) == (CHOOSE d \in 1..10 : DigitChars[d] = c) - 1

\* String(i) of a non-negative integer: its decimal digits
RECURSIVE NumberToString(_)
NumberToString(i) ==
    IF i < 10 THEN <<DigitChars[i + 1]>>
    ELSE NumberToString(i \div 10) \o <<DigitChars[(i % 10) + 1]>>

ReqPrefix == <<"r", "e", "q", "-">>

\* The template literal `req-${i}` of LLMNode.createBatch
customIdOf(i) == ReqPrefix \o NumberToString(i)

\* String.prototype.replace(pattern, by) with a string pattern: the first
\* occurrence only.
Occurrences(str, pattern) ==
    {k \in 1..(Len(str) - Len(pattern) + 1) :
        SubSeq(str, k, k + Len(pattern) - 1) = pattern}
replace(str, pattern, by) ==
    IF Occurrences(str, pattern) = {} THEN str
    ELSE LET k == CHOOSE j \in Occurrences(str, pattern) :
                    \A m \in Occurrences(str, pattern) : j <= m
         IN SubSeq(str, 1, k - 1) \o by \o SubSeq(str, k + Len(pattern), Len(str))

\* parseInt(str, 10) on a string without sign or leading blanks: the value
\* of the longest prefix of digits, NaN when that prefix is empty.
NaN == -1
RECURSIVE DigitsValue(_, _)
DigitsValue(str, acc) ==
    IF str = <<>> \/ ~IsDigit(Head(str)) THEN acc
    ELSE DigitsValue(Tail(str), 10 * acc + DigitValue(Head(str)))
parseInt(str) ==
    IF str = <<>> \/ ~IsDigit(Head(str)) THEN NaN ELSE DigitsValue(str, 0)

\* The index LLMNode.retrieveBatch recovers from a provider item's customId
indexOfCustomIdMutLastDigit(customId) ==
    parseInt(SubSeq(customId, Len(customId), Len(customId)))
indexOfCustomId(customId) == parseInt(replace(customId, ReqPrefix, <<>>))

(***************************************************************************)
(* Batches: LLMNode.createBatch / retrieveBatch and the batch adapters     *)
(***************************************************************************)
BatchConfigs == { [provider |-> "openai", model |-> "gpt-4o"],
                  [provider |-> "openai", model |-> "gpt-3.5-turbo"],
                  [provider |-> "anthropic", model |-> "claude-haiku-4-5"],
                  [provider |-> "bedrock", model |-> "claude-sonnet-4-5"],
                  [provider |-> "google", model |-> "gemini-2.5-flash"] }

\* supportsBatch() of the provider createProvider(config) returns
supportsBatchMutAll(provider) == TRUE
supportsBatch(provider) == provider \in {"openai", "anthropic"}

\* generatePrompt(input) of the i-th input (zero-based)
promptOf(i) == <<"prompt", i>>

\* LLMNode.createBatch: inputs.map((input, i) => ({customId, prompt}))
batchRequests(k) ==
    [j \in 1..k |-> [customId |-> customIdOf(j - 1), prompt |-> promptOf(j - 1)]]

\* What a vendor reports for one request.  OpenAI: a line of the output
\* file with HTTP status 200 or 400, a line of the error file, or both;
\* Anthropic: a result of type succeeded, errored, canceled or expired.
OpenAIOutcomes == {"200", "200bad", "200empty", "400", "errfile", "errfile_expired",
                   "200+errfile"}
AnthropicOutcomes == {"succeeded", "succeeded_bad", "succeeded_empty", "errored",
                      "canceled", "expired"}

OutcomeText(o) ==
    CASE o \in {"200", "200+errfile", "succeeded"} -> "c1"
      [] o \in {"200bad", "succeeded_bad"} -> "bad"
      [] OTHER -> ""

VendorItemUsage == Some([input |-> MaxTok, output |-> MaxTok + 1])

\* A line of the OpenAI output file / an Anthropic result
OutputEntry(id, o) ==
    [custom_id |-> id,
     type |-> IF o \in {"200", "200bad", "200empty", "200+errfile"} THEN "200"
              ELSE IF o \in {"succeeded", "succeeded_bad", "succeeded_empty"} THEN "succeeded"
              ELSE o,
     text |-> OutcomeText(o),
     usage |-> IF o \in {"200", "200bad", "200empty", "200+errfile",
                         "succeeded", "succeeded_bad", "succeeded_empty"}
               THEN VendorItemUsage ELSE None,
     message |-> IF o = "errored" THEN "overloaded" ELSE ""]

\* A line of the OpenAI error file
ErrorEntry(id, o) ==
    [custom_id |-> id,
     code |-> IF o = "errfile_expired" THEN "batch_expired" ELSE "server_error",
     message |-> IF o = "errfile_expired" THEN "expired" ELSE ""]

InOutputFile(o) == o \notin {"errfile", "errfile_expired"}
InErrorFile(o) == o \in {"errfile", "errfile_expired", "200+errfile"}

\* The entries of one source, in the vendor's order: order is a sequence of
\* request positions, outcome maps each position to what happened to it.
RECURSIVE EntriesOf(_, _, _, _)
EntriesOf(order, outcome, ids, errorFile) ==
    IF order = <<>> THEN <<>>
    ELSE LET j == Head(order)
             rest == EntriesOf(Tail(order), outcome, ids, errorFile)
         IN IF errorFile
            THEN (IF InErrorFile(outcome[j])
                  THEN <<ErrorEntry(ids[j], outcome[j])>> ELSE <<>>) \o rest
            ELSE (IF InOutputFile(outcome[j])
                  THEN <<OutputEntry(ids[j], outcome[j])>> ELSE <<>>) \o rest

Item(customId, status, content, error, usage) ==
    [customId |-> customId, status |-> status, content |-> content,
     error |-> error, tokenUsage |-> usage]

ItemUsage(usage) ==
    [inputTokens |-> IF IsSome(usage) THEN OrZero(Get(usage).input) ELSE 0,
     outputTokens |-> IF IsSome(usage) THEN OrZero(Get(usage).output) ELSE 0]

\* OpenAIProvider.retrieveBatch: one line of the output file.  The body is
\* read in the format metadata.model selects; a body written in the other
\* format has none of the fields read, so content is "" and the counts 0.
openaiOutputItem(entry, useResponsesAPI, endpoint) ==
    IF entry.type = "200"
    THEN LET sameFormat == (useResponsesAPI <=> endpoint = "/v1/responses")
         IN Item(entry.custom_id, "success",
                 Some(IF sameFormat THEN entry.text ELSE ""),
                 None,
                 Some(IF sameFormat THEN ItemUsage(entry.usage) ELSE ItemUsage(None)))
    ELSE Item(entry.custom_id, "failed", None, Some("HTTP 400"), None)

RECURSIVE openaiOutputItems(_, _, _)
openaiOutputItems(entries, useResponsesAPI, endpoint) ==
    IF entries = <<>> THEN <<>>
    ELSE <<openaiOutputItem(Head(entries), useResponsesAPI, endpoint)>>
            \o openaiOutputItems(Tail(entries), useResponsesAPI, endpoint)

\* OpenAIProvider.retrieveBatch: the loop over the error file, which adds a
\* line only when no item with its custom_id is in results yet.
RECURSIVE openaiMergeErrors(_, _)
RECURSIVE openaiMergeErrorsMutNoLookup(_, _)
openaiMergeErrorsMutNoLookup(results, errorLines) ==
    IF errorLines = <<>> THEN results
    ELSE LET entry == Head(errorLines)
         IN openaiMergeErrorsMutNoLookup(
                Append(results,
                       Item(entry.custom_id,
                            IF entry.code = "batch_expired" THEN "expired" ELSE "failed",
                            None,
                            Some(IF entry.message = "" THEN "Unknown error"
                                 ELSE entry.message),
                            None)),
                Tail(errorLines))
openaiMergeErrors(results, errorLines) ==
    IF errorLines = <<>> THEN results
    ELSE LET entry == Head(errorLines)
             existing == \E k \in 1..Len(results) : results[k].customId = entry.custom_id
         IN openaiMergeErrors(
                IF existing THEN results
                ELSE Append(results,
                        Item(entry.custom_id,
                             IF entry.code = "batch_expired" THEN "expired" ELSE "failed",
                             None,
                             Some(IF entry.message = "" THEN "Unknown error"
                                  ELSE entry.message),
                             None)),
                Tail(errorLines))

Count(entries, types) == Cardinality({k \in 1..Len(entries) : entries[k].type \in types})

\* OpenAIProvider.retrieveBatch
openaiRetrieveBatchMutAlwaysRead(batch, metadata) ==
    [status |-> batch.status,
     results |-> Some(openaiMergeErrors(
                        openaiOutputItems(batch.output,
                                          shouldUseResponsesAPI(metadata.model),
                                          batch.endpoint),
                        batch.errors)),
     requestCounts |-> [total |-> Len(batch.ids),
                        completed |-> Count(batch.output, {"200"}),
                        failed |-> Count(batch.output, {"400"}) + Len(batch.errors)]]
openaiRetrieveBatch(batch, metadata) ==
    LET status == batch.status
        requestCounts == [total |-> Len(batch.ids),
                          completed |-> Count(batch.output, {"200"}),
                          failed |-> Count(batch.output, {"400"}) + Len(batch.errors)]
    IN IF status # "completed"
       THEN [status |-> status, results |-> None, requestCounts |-> requestCounts]
       ELSE [status |-> status,
             results |-> Some(openaiMergeErrors(
                                openaiOutputItems(batch.output,
                                                  shouldUseResponsesAPI(metadata.model),
                                                  batch.endpoint),
                                batch.errors)),
             requestCounts |-> requestCounts]

\* AnthropicProvider.retrieveBatch: one streamed result
anthropicResultItem(result) ==
    CASE result.type = "succeeded" ->
            Item(result.custom_id, "success", Some(result.text), None,
                 Some(ItemUsage(result.usage)))
      [] result.type = "errored" ->
            Item(result.custom_id, "failed", None,
                 Some(IF result.message = "" THEN "Unknown error" ELSE result.message), None)
      [] result.type = "canceled" -> Item(result.custom_id, "cancelled", None, None, None)
      [] result.type = "expired" -> Item(result.custom_id, "expired", None, None, None)
      [] OTHER -> Item(result.custom_id, "failed", None, None, None)

RECURSIVE anthropicResultItems(_)
anthropicResultItems(entries) ==
    IF entries = <<>> THEN <<>>
    ELSE <<anthropicResultItem(Head(entries))>> \o anthropicResultItems(Tail(entries))

\* AnthropicProvider.retrieveBatch: the switch on processing_status
anthropicStatusMutRaw(processing_status) == processing_status
anthropicStatus(processing_status) ==
    CASE processing_status = "in_progress" -> "in_progress"
      [] processing_status = "canceling" -> "cancelling"
      [] processing_status = "ended" -> "completed"
      [] OTHER -> "in_progress"

\* AnthropicProvider.retrieveBatch
anthropicRetrieveBatch(batch, metadata) ==
    LET status == anthropicStatus(batch.status)
        ended == batch.status = "ended"
        requestCounts ==
            [total |-> Len(batch.ids),
             completed |-> Count(batch.output, {"succeeded"}),
             failed |-> Count(batch.output, {"errored"})]
    IN IF ~ended
       THEN [status |-> status, results |-> None, requestCounts |-> requestCounts]
       ELSE [status |-> status,
             results |-> Some(anthropicResultItems(batch.output)),
             requestCounts |-> requestCounts]

providerRetrieveBatch(provider, batch, metadata) ==
    IF provider = "openai" THEN openaiRetrieveBatch(batch, metadata)
    ELSE anthropicRetrieveBatch(batch, metadata)

\* LLMNode.retrieveBatch: the callback of providerResponse.results.map
ItemResultMutRawAsOutput(index, status, output, rawOutput, error, usage) ==
    [index |-> index, status |-> status,
     output |-> IF IsSome(output) THEN output ELSE rawOutput,
     rawOutput |-> rawOutput, error |-> error, tokenUsage |-> usage]
ItemResult(index, status, output, rawOutput, error, usage) ==
    [index |-> index, status |-> status, output |-> output, rawOutput |-> rawOutput,
     error |-> error, tokenUsage |-> usage]

batchItemResultMutParsesEmpty(providerItem) ==
    LET index == indexOfCustomId(providerItem.customId)
        noContent == ~IsSome(providerItem.content)
    IN IF providerItem.status # "success" \/ noContent
       THEN ItemResult(index, providerItem.status, None, providerItem.content,
                       providerItem.error, providerItem.tokenUsage)
       ELSE IF parserThrows(Get(providerItem.content))
            THEN ItemResult(index, "failed", None, providerItem.content,
                            Some("Parse error"), providerItem.tokenUsage)
            ELSE ItemResult(index, "success", Some(parser(Get(providerItem.content))),
                            providerItem.content, None, providerItem.tokenUsage)
batchItemResultMutKeepStatus(providerItem) ==
    LET index == indexOfCustomId(providerItem.customId)
        noContent == ~IsSome(providerItem.content) \/ Get(providerItem.content) = ""
    IN IF providerItem.status # "success" \/ noContent
       THEN ItemResult(index, providerItem.status, None, providerItem.content,
                       providerItem.error, providerItem.tokenUsage)
       ELSE IF parserThrows(Get(providerItem.content))
            THEN ItemResult(index, providerItem.status, None, providerItem.content,
                            Some("Parse error"), providerItem.tokenUsage)
            ELSE ItemResult(index, "success", Some(parser(Get(providerItem.content))),
                            providerItem.content, None, providerItem.tokenUsage)
batchItemResult(providerItem) ==
    LET index == indexOfCustomId(providerItem.customId)
        noContent == ~IsSome(providerItem.content) \/ Get(providerItem.content) = ""
    IN IF providerItem.status # "success" \/ noContent
       THEN ItemResult(index, providerItem.status, None, providerItem.content,
                       providerItem.error, providerItem.tokenUsage)
       ELSE IF parserThrows(Get(providerItem.content))
            THEN ItemResult(index, "failed", None, providerItem.content,
                            Some("Parse error"), providerItem.tokenUsage)
            ELSE ItemResult(index, "success", Some(parser(Get(providerItem.content))),
                            providerItem.content, None, providerItem.tokenUsage)

RECURSIVE batchItemResults(_)
RECURSIVE batchItemResultsMutOnlySuccess(_)
batchItemResultsMutOnlySuccess(items) ==
    IF items = <<>> THEN <<>>
    ELSE (IF Head(items).status = "success" THEN <<batchItemResult(Head(items))>> ELSE <<>>)
            \o batchItemResultsMutOnlySuccess(Tail(items))
batchItemResults(items) ==
    IF items = <<>> THEN <<>>
    ELSE <<batchItemResult(Head(items))>> \o batchItemResults(Tail(items))

\* results.sort((a, b) => a.index - b.index): Array.prototype.sort is
\* stable, so items of equal index keep their order.
RECURSIVE InsertByIndex(_, _)
InsertByIndex(sorted, item) ==
    IF sorted = <<>> THEN <<item>>
    ELSE IF item.index < Head(sorted).index
         THEN <<item>> \o sorted
         ELSE <<Head(sorted)>> \o InsertByIndex(Tail(sorted), item)

RECURSIVE InsertionSort(_)
InsertionSort(results) ==
    IF results = <<>> THEN <<>>
    ELSE InsertByIndex(InsertionSort(SubSeq(results, 1, Len(results) - 1)),
                       results[Len(results)])

sortByIndexMutNoSort(results) == results
sortByIndex(results) == InsertionSort(results)

\* LLMNode.retrieveBatch: the loop that adds up the items' tokenUsage
RECURSIVE aggregateUsage(_, _)
aggregateUsage(results, acc) ==
    IF results = <<>> THEN acc
    ELSE aggregateUsage(Tail(results),
            IF IsSome(Head(results).tokenUsage)
            THEN [inputTokens |-> acc.inputTokens + Get(Head(results).tokenUsage).inputTokens,
                  outputTokens |-> acc.outputTokens + Get(Head(results).tokenUsage).outputTokens]
            ELSE acc)

RECURSIVE recordEach(_, _, _)
recordEach(records, config, results) ==
    IF results = <<>> THEN records
    ELSE recordEach(
            IF IsSome(Head(results).tokenUsage)
            THEN recordUsage(records, config, Get(Head(results).tokenUsage))
            ELSE records,
            config, Tail(results))

\* LLMNode.retrieveBatch from the point where provider.retrieveBatch has
\* resolved: the BatchResult returned and the ledger afterwards.
nodeRetrieveBatchMutRecordPerItem(records, config, providerResponse) ==
    IF providerResponse.status # "completed" \/ ~IsSome(providerResponse.results)
    THEN [result |-> [status |-> providerResponse.status,
                      results |-> None,
                      requestCounts |-> providerResponse.requestCounts],
          records |-> records]
    ELSE LET results == sortByIndex(batchItemResults(Get(providerResponse.results)))
         IN [result |-> [status |-> "completed",
                         results |-> Some(results),
                         requestCounts |-> providerResponse.requestCounts],
             records |-> recordEach(records, config, results)]
nodeRetrieveBatchMutRecordPending(records, config, providerResponse) ==
    IF providerResponse.status # "completed" \/ ~IsSome(providerResponse.results)
    THEN [result |-> [status |-> providerResponse.status,
                      results |-> None,
                      requestCounts |-> providerResponse.requestCounts],
          records |-> recordUsage(records, config, [inputTokens |-> 0, outputTokens |-> 0])]
    ELSE LET results == sortByIndex(batchItemResults(Get(providerResponse.results)))
         IN [result |-> [status |-> "completed",
                         results |-> Some(results),
                         requestCounts |-> providerResponse.requestCounts],
             records |-> recordUsage(records, config,
                            aggregateUsage(results, [inputTokens |-> 0, outputTokens |-> 0]))]
nodeRetrieveBatchMutSkipRepeat(records, config, providerResponse) ==
    IF providerResponse.status # "completed" \/ ~IsSome(providerResponse.results)
    THEN [result |-> [status |-> providerResponse.status,
                      results |-> None,
                      requestCounts |-> providerResponse.requestCounts],
          records |-> records]
    ELSE LET results == sortByIndex(batchItemResults(Get(providerResponse.results)))
         IN [result |-> [status |-> "completed",
                         results |-> Some(results),
                         requestCounts |-> providerResponse.requestCounts],
             records |-> IF records = <<>>
                         THEN recordUsage(records, config,
                                 aggregateUsage(results, [inputTokens |-> 0, outputTokens |-> 0]))
                         ELSE records]
nodeRetrieveBatchMutOncePerNode(records, config, providerResponse) ==
    IF providerResponse.status # "completed" \/ ~IsSome(providerResponse.results)
       \/ records # <<>>
    THEN [result |-> [status |-> providerResponse.status,
                      results |-> None,
                      requestCounts |-> providerResponse.requestCounts],
          records |-> records]
    ELSE LET results == sortByIndex(batchItemResults(Get(providerResponse.results)))
         IN [result |-> [status |-> "completed",
                         results |-> Some(results),
                         requestCounts |-> providerResponse.requestCounts],
             records |-> recordUsage(records, config,
                            aggregateUsage(results, [inputTokens |-> 0, outputTokens |-> 0]))]
nodeRetrieveBatch(records, config, providerResponse) ==
    IF providerResponse.status # "completed" \/ ~IsSome(providerResponse.results)
    THEN [result |-> [status |-> providerResponse.status,
                      results |-> None,
                      requestCounts |-> providerResponse.requestCounts],
          records |-> records]
    ELSE LET results == sortByIndex(batchItemResults(Get(providerResponse.results)))
         IN [result |-> [status |-> "completed",
                         results |-> Some(results),
                         requestCounts |-> providerResponse.requestCounts],
             records |-> recordUsage(records, config,
                            aggregateUsage(results, [inputTokens |-> 0, outputTokens |-> 0]))]

\* No batch submitted, no usage recorded
BatchIdle ==
    /\ bNode = 1
    /\ bUsageRecords = <<>>
    /\ bInputs = 0
    /\ bRequests = <<>>
    /\ bMeta = None
    /\ bError = <<>>
    /\ bResult = None
    /\ bSeen = None
    /\ vBatch = None
    /\ corr = None

\* A node constructed with one of the configurations
BatchInit ==
    /\ bConfig \in BatchConfigs
    /\ BatchIdle

(***************************************************************************)
(* Spec: nodes, pipelines, concurrent callers                              *)
(***************************************************************************)
ExecInit ==
    /\ usageRecords = [n \in Nodes |-> <<>>]
    /\ built = None
    /\ lastPipe = None
    /\ pc = [t \in Tasks |-> "idle"]
    /\ called = [t \in Tasks |-> Leaf("A")]
    /\ cur = [t \in Tasks |-> "A"]
    /\ stack = [t \in Tasks |-> <<>>]
    /\ value = [t \in Tasks |-> "in"]
    /\ events = [t \in Tasks |-> <<>>]
    /\ nInvokes = 0
    /\ reported = [n \in Nodes |-> [n |-> 0, inputTokens |-> 0, outputTokens |-> 0]]
    /\ clearedInFlight = FALSE

\* No adapter's invoke has been called
InvokeIdle ==
    /\ iPhase = "idle"
    /\ iCalls = <<>>
    /\ iResult = None
    /\ mConfig = None
    /\ mResponse = None

\* A StreamNode on which stream has not been called
NodeIdle ==
    /\ snPhase = "none"
    /\ snStreams = 0
    /\ snPrompts = 0
    /\ snPos = 0
    /\ snYielded = <<>>
    /\ snFinalUsage = None
    /\ snError = <<>>
    /\ heap = <<>>
    /\ snLedger = <<>>
    /\ snExhausted = 0

Init ==
    /\ ExecInit
    /\ StreamInit
    /\ bConfig = [provider |-> "openai", model |-> "gpt-4o"]
    /\ BatchIdle
    /\ maxTokensSet = TRUE
    /\ snConfig = [provider |-> "openai", model |-> "gpt-4o"]
    /\ NodeIdle
    /\ InvokeIdle

Next ==
    \/ \E t \in Tasks, x \in Callables, input \in CallerInputs : Execute(t, x, input)
    \/ \E t \in Tasks, response \in Responses : InvokeReturns(t, response)
    \/ \E t \in Tasks : InvokeFails(t)
    \/ \E n \in Nodes : clearUsageRecords(n)

\* Callers run execute on the nodes concurrently and clear ledgers.
Spec == Init /\ [][Next]_vars

(***************************************************************************)
(* SpecPipe: one caller builds pipelines with pipe and runs them           *)
(***************************************************************************)
PipeTasks == {1}

NextPipe ==
    \/ \E recv \in PipeReceivers, arg \in PipeArgs : Pipe(recv, arg)
    \/ \E t \in PipeTasks, x \in Callables, input \in CallerInputs : Execute(t, x, input)
    \/ \E t \in PipeTasks, response \in Responses : InvokeReturns(t, response)
    \/ \E t \in PipeTasks : InvokeFails(t)
    \/ \E t \in PipeTasks, result \in PlainResults : PlainReturns(t, result)
    \/ \E t \in PipeTasks : PlainFails(t)
    \/ \E t \in PipeTasks : pipeExecuteNext(t)
    \/ \E n \in Nodes : clearUsageRecords(n)

SpecPipe == Init /\ [][NextPipe]_vars

(***************************************************************************)
(* SpecStream: one adapter's invokeStream                                  *)
(***************************************************************************)
\* invokeStream(prompt, config) is called and runs to its first await, the
\* vendor's create call.  Anthropic and Bedrock require config.maxTokens.
invokeStreamBegin(a, model, hasMaxTokens) ==
    /\ sAdapter' = a
    /\ sModel' = model
    /\ sStyle' = IF a = "openai"
                 THEN (IF shouldUseResponsesAPI(model) THEN "responses" ELSE "chat")
                 ELSE a
    /\ IF mandatesMaxTokens(a) /\ ~hasMaxTokens
       THEN sPhase' = "failed" /\ sError' = maxTokensMessage(a) /\ sCalls' = <<>>
       ELSE /\ sPhase' = "creating"
            /\ sError' = ""
            /\ sCalls' = <<[api |-> IF a = "openai"
                                    THEN (IF shouldUseResponsesAPI(model) THEN "responses"
                                          ELSE "chat")
                                    ELSE a,
                            at |-> 0, during |-> "idle", caught |-> 0]>>
    /\ chunks' = <<>>
    /\ sTokenUsage' = newTokenUsage
    /\ nEvents' = 0
    /\ sawUsage' = FALSE
    /\ iUsage' = None
    /\ sShape' = "none"

\* A caller calls the adapter's invokeStream and pulls its first element.
InvokeStream(a, model, hasMaxTokens) ==
    /\ sPhase \in {"idle", "ended", "failed"}
    /\ invokeStreamBegin(a, model, hasMaxTokens)
    /\ UNCHANGED nonStreamVars

\* The vendor's create call resolves with the raw stream.
CreateReturns ==
    /\ sPhase = "creating"
    /\ sPhase' = "streaming"
    /\ sTokenUsage' = newTokenUsage
    /\ sawUsage' = FALSE
    /\ iUsage' = None
    /\ sShape' = "none"
    /\ UNCHANGED <<sAdapter, sModel, sStyle, sError, chunks, nEvents, sCalls, nonStreamVars>>

\* An error with the given HTTP status leaves the running generator.  Inside
\* OpenAI's invokeStream the Responses generator runs in a try block whose
\* catch starts streamChatCompletions on status 404 (OpenAIProvider.ts:99-108).
ThrowMutAnyStatus(status) ==
    IF sStyle = "responses"
    THEN /\ sStyle' = "chat"
         /\ sPhase' = "creating"
         /\ sError' = ""
         /\ sCalls' = Append(sCalls, [api |-> "chat", at |-> Len(chunks),
                                      during |-> sPhase, caught |-> status])
    ELSE /\ sStyle' = sStyle
         /\ sPhase' = "failed"
         /\ sError' = IF status = 404 THEN "404" ELSE "500"
         /\ sCalls' = sCalls
Throw(status) ==
    IF sStyle = "responses" /\ status = 404
    THEN /\ sStyle' = "chat"
         /\ sPhase' = "creating"
         /\ sError' = ""
         /\ sCalls' = Append(sCalls, [api |-> "chat", at |-> Len(chunks),
                                      during |-> sPhase, caught |-> status])
    ELSE /\ sStyle' = sStyle
         /\ sPhase' = "failed"
         /\ sError' = IF status = 404 THEN "404" ELSE "500"
         /\ sCalls' = sCalls

Statuses == {404, 500}

\* The vendor's create call rejects.
CreateFails(status) ==
    /\ sPhase = "creating"
    /\ Throw(status)
    /\ UNCHANGED <<sAdapter, sModel, chunks, sTokenUsage, nEvents, sawUsage, iUsage, sShape,
                   nonStreamVars>>

\* The raw stream delivers one event; the loop body runs.
StreamEvent(event) ==
    /\ sPhase = "streaming"
    /\ nEvents < MaxEvents
    /\ event \in EventsOf(sStyle)
    /\ LET r == streamEvent(sStyle, sTokenUsage, event)
       IN /\ sTokenUsage' = r.tokenUsage
          /\ chunks' = chunks \o r.yield
    /\ nEvents' = nEvents + 1
    /\ sawUsage' = (sawUsage \/ ReportsUsage(event))
    /\ iUsage' = invokeEvent(sStyle, iUsage, event)
    /\ sShape' = shapeStep(sShape, event)
    /\ UNCHANGED <<sAdapter, sModel, sStyle, sPhase, sError, sCalls, nonStreamVars>>

\* The raw stream ends normally; the generator yields its terminal chunk.
StreamEnd ==
    /\ sPhase = "streaming"
    /\ chunks' = Append(chunks, terminalChunk(sTokenUsage))
    /\ sPhase' = "ended"
    /\ UNCHANGED <<sAdapter, sModel, sStyle, sError, sTokenUsage, nEvents, sawUsage,
                   sCalls, iUsage, sShape, nonStreamVars>>

\* The raw stream fails while it is being read.
StreamFailsMutTerminalFirst(status) ==
    /\ sPhase = "streaming"
    /\ Throw(status)
    /\ chunks' = Append(chunks, terminalChunk(sTokenUsage))
    /\ UNCHANGED <<sAdapter, sModel, sTokenUsage, nEvents, sawUsage, iUsage, sShape,
                   nonStreamVars>>
StreamFails(status) ==
    /\ sPhase = "streaming"
    /\ Throw(status)
    /\ UNCHANGED <<sAdapter, sModel, chunks, sTokenUsage, nEvents, sawUsage, iUsage, sShape,
                   nonStreamVars>>

NextStream ==
    \/ \E a \in Adapters, model \in Models, hasMaxTokens \in BOOLEAN :
          InvokeStream(a, model, hasMaxTokens)
    \/ CreateReturns
    \/ \E status \in Statuses : CreateFails(status)
    \/ \E event \in EventsOf(sStyle) : StreamEvent(event)
    \/ StreamEnd
    \/ \E status \in Statuses : StreamFails(status)

SpecStream == Init /\ [][NextStream]_vars

(***************************************************************************)
(* SpecOpenAI: the OpenAI adapter's invoke next to the adapters' streams   *)
(***************************************************************************)
\* OpenAIProvider.invoke(prompt, config) is called and runs to the create
\* call of the API the model selects.
OpenAIInvoke(model) ==
    /\ iPhase \in {"idle", "returned", "failed"}
    /\ iPhase' = IF shouldUseResponsesAPI(model) THEN "responses" ELSE "chat"
    /\ iCalls' = <<[api |-> IF shouldUseResponsesAPI(model) THEN "responses" ELSE "chat",
                    caught |-> 0]>>
    /\ iResult' = None
    /\ UNCHANGED <<mConfig, mResponse, nonInvokeVars>>

\* The create call resolves; invoke returns the LLMResponse made from it.
OpenAIResponds ==
    /\ iPhase \in {"responses", "chat"}
    /\ iPhase' = "returned"
    /\ iResult' = Some([ok |-> TRUE, api |-> iPhase, status |-> 200])
    /\ UNCHANGED <<iCalls, mConfig, mResponse, nonInvokeVars>>

\* The create call rejects with an error of the given status.  The catch
\* around responses.create calls useChatCompletions on 404 and rethrows
\* anything else; an error of useChatCompletions leaves invoke as it is.
OpenAIRejects(status) ==
    /\ iPhase \in {"responses", "chat"}
    /\ IF iPhase = "responses" /\ status = 404
       THEN /\ iPhase' = "chat"
            /\ iCalls' = Append(iCalls, [api |-> "chat", caught |-> status])
            /\ iResult' = None
       ELSE /\ iPhase' = "failed"
            /\ iCalls' = iCalls
            /\ iResult' = Some([ok |-> FALSE, api |-> iPhase, status |-> status])
    /\ UNCHANGED <<mConfig, mResponse, nonInvokeVars>>

NextOpenAI ==
    \/ \E a \in Adapters, model \in Models, hasMaxTokens \in BOOLEAN :
          InvokeStream(a, model, hasMaxTokens)
    \/ CreateReturns
    \/ \E status \in Statuses : CreateFails(status)
    \/ \E event \in EventsOf(sStyle) : StreamEvent(event)
    \/ StreamEnd
    \/ \E status \in Statuses : StreamFails(status)
    \/ \E model \in Models : OpenAIInvoke(model)
    \/ OpenAIResponds
    \/ \E status \in Statuses : OpenAIRejects(status)

SpecOpenAI == Init /\ [][NextOpenAI]_vars

(***************************************************************************)
(* SpecThink: the usage the Anthropic and Bedrock invoke return            *)
(***************************************************************************)
\* The thinking-token estimate of invoke: the output count less a quarter of
\* the content's length, rounded up (Math.ceil(content.length / 4)).
thinkingTokensMutNoClamp(thinking, usage, content) ==
    IF thinking /\ IsSome(usage)
    THEN OrZero(Get(usage).output) - ((Len(content) + 3) \div 4)
    ELSE 0

thinkingTokensMutFloor(thinking, usage, content) ==
    IF thinking /\ IsSome(usage)
    THEN LET estimate == OrZero(Get(usage).output) - (Len(content) \div 4)
         IN  IF estimate > 0 THEN estimate ELSE 0
    ELSE 0

thinkingTokensMutAlways(thinking, usage, content) ==
    IF IsSome(usage)
    THEN LET contentTokenEstimate == (Len(content) + 3) \div 4
             estimate == OrZero(Get(usage).output) - contentTokenEstimate
         IN  IF estimate > 0 THEN estimate ELSE 0
    ELSE 0

thinkingTokens(thinking, usage, content) ==
    IF thinking /\ IsSome(usage)
    THEN LET contentTokenEstimate == (Len(content) + 3) \div 4
             estimate == OrZero(Get(usage).output) - contentTokenEstimate
         IN  IF estimate > 0 THEN estimate ELSE 0
    ELSE 0

\* invoke(prompt, config) is called on the Anthropic or the Bedrock adapter
\* and runs to its messages.create call.
MessagesInvoke(provider, thinking) ==
    /\ mConfig = None \/ IsSome(mResponse)
    /\ mConfig' = Some([provider |-> provider, thinking |-> thinking])
    /\ mResponse' = None
    /\ UNCHANGED <<iPhase, iCalls, iResult, nonInvokeVars>>

\* The vendor's answer has been read, as one Message or event by event:
\* `content` is the text gathered from it and `usage` the usage object it
\* left, if any.  invoke returns the LLMResponse made from them.
MessagesReturn(content, usage) ==
    /\ IsSome(mConfig)
    /\ mResponse = None
    /\ mResponse' = Some([content |-> content,
                          usage |-> [inputTokens |-> IF IsSome(usage)
                                                     THEN OrZero(Get(usage).input) ELSE 0,
                                     outputTokens |-> IF IsSome(usage)
                                                      THEN OrZero(Get(usage).output) ELSE 0,
                                     thinkingTokens |-> thinkingTokens(Get(mConfig).thinking,
                                                                       usage, content)],
                          raw |-> [content |-> content, usage |-> usage]])
    /\ UNCHANGED <<iPhase, iCalls, iResult, mConfig, nonInvokeVars>>

NextThink ==
    \/ \E provider \in {"anthropic", "bedrock"}, thinking \in BOOLEAN :
          MessagesInvoke(provider, thinking)
    \/ \E len \in 0..MaxContentLen,
          usage \in {None} \cup { Some([input |-> MaxTok, output |-> o]) :
                                     o \in {NoNum} \cup 0..(MaxTok + 2) } :
          MessagesReturn([k \in 1..len |-> "x"], usage)

SpecThink == Init /\ [][NextThink]_vars

(***************************************************************************)
(* SpecNode: StreamNode.stream, its consumer and the node's ledger         *)
(***************************************************************************)
\* An async generator runs only while its consumer waits for an element:
\* the body of stream() begins at the consumer's first next(), and the
\* adapter's generator advances only while the node's for-await waits.
StreamConfigs == { [provider |-> "openai", model |-> "gpt-4o"],
                   [provider |-> "openai", model |-> "gpt-3.5-turbo"],
                   [provider |-> "anthropic", model |-> "claude-haiku-4-5"],
                   [provider |-> "bedrock", model |-> "claude-sonnet-4-5"],
                   [provider |-> "google", model |-> "gemini-2.5-flash"],
                   [provider |-> "ollama", model |-> "llama3"] }

\* `this.provider.invokeStream` is defined: the four adapters have the
\* method, ILLMProvider leaves it optional for any other.
hasInvokeStreamMutAll(provider) == TRUE
hasInvokeStream(provider) == provider \in Adapters

\* The loop body of stream() up to the yield: what finalUsage and the ledger
\* are after the node has taken chunk, whose tokenUsage is a reference.
streamTakeMutRecordAtOnce(records, config, finalUsage, chunk) ==
    [finalUsage |-> IF IsSome(chunk.tokenUsage) THEN chunk.tokenUsage ELSE finalUsage,
     records |-> IF IsSome(chunk.tokenUsage)
                 THEN recordUsage(records, config, Get(chunk.tokenUsage))
                 ELSE records]
streamTake(records, config, finalUsage, chunk) ==
    [finalUsage |-> IF IsSome(chunk.tokenUsage) THEN chunk.tokenUsage ELSE finalUsage,
     records |-> records]

\* After the loop: if (finalUsage) this.recordUsage(finalUsage)
streamFinishMutNoRecord(records, config, finalUsage) == records
streamFinish(records, config, finalUsage) ==
    IF IsSome(finalUsage) THEN recordUsage(records, config, Get(finalUsage)) ELSE records

\* The value a caller writes into a TokenUsage object it can reach
Overwritten == 99

\* The caller calls node.stream(input): the generator object is created and
\* nothing of its body runs.
StreamCall ==
    /\ snPhase \in {"none", "done", "threw", "returned"}
    /\ snStreams < MaxStreams
    /\ snStreams' = snStreams + 1
    /\ snPhase' = "start"
    /\ snPos' = 0
    /\ snYielded' = <<>>
    /\ snFinalUsage' = None
    /\ snError' = <<>>
    /\ UNCHANGED <<snConfig, snPrompts, heap, snLedger, snExhausted, nonNodeVars>>

\* The consumer's first next(): the body runs from its start to the first
\* await of the adapter's generator, or to the throw.
StreamBegin ==
    /\ snPhase = "start"
    /\ IF ~hasInvokeStream(snConfig.provider)
       THEN /\ snPhase' = "threw"
            /\ snError' = <<"Provider '", snConfig.provider, "' does not support streaming.">>
            /\ UNCHANGED <<snPrompts, streamVars>>
       ELSE /\ snPrompts' = snPrompts + 1
            /\ invokeStreamBegin(snConfig.provider, snConfig.model, maxTokensSet)
            /\ snPhase' = "awaiting"
            /\ snError' = <<>>
    /\ UNCHANGED <<snConfig, snStreams, snPos, snYielded, snFinalUsage, heap, snLedger,
                   snExhausted, execVars, batchVars, configVars, invokeVars>>

\* The adapter's generator may run: the node waits for its next element and
\* has taken every chunk it yielded.
AdapterRuns == snPhase = "awaiting" /\ snPos = Len(chunks)

\* The adapter has yielded a chunk; the node notes its usage and yields it.
\* The terminal chunk's tokenUsage is the adapter's own object.
StreamTake ==
    /\ snPhase = "awaiting"
    /\ snPos < Len(chunks)
    /\ LET c == chunks[snPos + 1]
           ref == Len(heap) + 1
           chunk == [text |-> c.text,
                     tokenUsage |-> IF IsSome(c.tokenUsage) THEN Some(ref) ELSE None]
           r == streamTake(snLedger, snConfig, snFinalUsage, chunk)
       IN /\ heap' = IF IsSome(c.tokenUsage) THEN Append(heap, Get(c.tokenUsage)) ELSE heap
          /\ snFinalUsage' = r.finalUsage
          /\ snLedger' = r.records
          /\ snYielded' = Append(snYielded, chunk)
    /\ snPos' = snPos + 1
    /\ snPhase' = "yielded"
    /\ UNCHANGED <<snConfig, snStreams, snPrompts, snError, snExhausted, nonNodeVars>>

\* The consumer asks for the next element.
ConsumerNext ==
    /\ snPhase = "yielded"
    /\ snPhase' = "awaiting"
    /\ UNCHANGED <<snConfig, snStreams, snPrompts, snPos, snYielded, snFinalUsage, snError,
                   heap, snLedger, snExhausted, nonNodeVars>>

\* The adapter's generator has finished: the loop ends, the usage is
\* recorded and the generator is done.
StreamFinish ==
    /\ AdapterRuns
    /\ sPhase = "ended"
    /\ snLedger' = streamFinish(snLedger, snConfig, snFinalUsage)
    /\ snPhase' = "done"
    /\ snExhausted' = snExhausted + 1
    /\ UNCHANGED <<snConfig, snStreams, snPrompts, snPos, snYielded, snFinalUsage, snError,
                   heap, nonNodeVars>>

\* The adapter's generator threw: the error leaves the for-await and the
\* generator.
StreamThrows ==
    /\ AdapterRuns
    /\ sPhase = "failed"
    /\ snPhase' = "threw"
    /\ snError' = <<sError>>
    /\ UNCHANGED <<snConfig, snStreams, snPrompts, snPos, snYielded, snFinalUsage, heap,
                   snLedger, snExhausted, nonNodeVars>>

\* The consumer leaves its loop (break, return, throw): the generator is
\* completed where it is suspended and nothing after the yield runs.
ConsumerStops ==
    /\ snPhase \in {"start", "yielded"}
    /\ snPhase' = "returned"
    /\ UNCHANGED <<snConfig, snStreams, snPrompts, snPos, snYielded, snFinalUsage, snError,
                   heap, snLedger, snExhausted, nonNodeVars>>

\* The caller assigns to a field of the tokenUsage object of a chunk the
\* current stream call has yielded to it.
WriteToChunk(k) ==
    /\ k \in 1..Len(snYielded)
    /\ IsSome(snYielded[k].tokenUsage)
    /\ heap[Get(snYielded[k].tokenUsage)].inputTokens # Overwritten
    /\ heap' = [heap EXCEPT ![Get(snYielded[k].tokenUsage)].inputTokens = Overwritten]
    /\ UNCHANGED <<snConfig, snPhase, snStreams, snPrompts, snPos, snYielded, snFinalUsage,
                   snError, snLedger, snExhausted, nonNodeVars>>

\* The caller calls getUsageRecords(), which returns a new array of the
\* same record objects, and assigns to a field of the tokenUsage of the
\* k-th record.
WriteToRecord(k) ==
    /\ k \in 1..Len(getUsageRecords(snLedger))
    /\ heap[getUsageRecords(snLedger)[k].tokenUsage].outputTokens # Overwritten
    /\ heap' = [heap EXCEPT ![getUsageRecords(snLedger)[k].tokenUsage].outputTokens
                                = Overwritten]
    /\ UNCHANGED <<snConfig, snPhase, snStreams, snPrompts, snPos, snYielded, snFinalUsage,
                   snError, snLedger, snExhausted, nonNodeVars>>

\* The caller calls clearUsageRecords().
StreamNodeClear ==
    /\ snLedger # <<>>
    /\ snLedger' = <<>>
    /\ snExhausted' = 0
    /\ UNCHANGED <<snConfig, snPhase, snStreams, snPrompts, snPos, snYielded, snFinalUsage,
                   snError, heap, nonNodeVars>>

NextNode ==
    \/ StreamCall
    \/ StreamBegin
    \/ AdapterRuns /\ CreateReturns
    \/ \E status \in Statuses : AdapterRuns /\ CreateFails(status)
    \/ \E event \in EventsOf(sStyle) : AdapterRuns /\ StreamEvent(event)
    \/ AdapterRuns /\ StreamEnd
    \/ \E status \in Statuses : AdapterRuns /\ StreamFails(status)
    \/ StreamTake
    \/ ConsumerNext
    \/ StreamFinish
    \/ StreamThrows
    \/ ConsumerStops
    \/ \E k \in 1..(MaxEvents + 1) : WriteToChunk(k)
    \/ \E k \in 1..MaxStreams : WriteToRecord(k)
    \/ StreamNodeClear

InitNode ==
    /\ ExecInit
    /\ StreamInit
    /\ bConfig = [provider |-> "openai", model |-> "gpt-4o"]
    /\ BatchIdle
    /\ maxTokensSet = TRUE
    /\ snConfig \in StreamConfigs
    /\ NodeIdle
    /\ InvokeIdle

SpecNode == InitNode /\ [][NextNode]_vars

(***************************************************************************)
(* SpecBatch: createBatch, the vendor's processing, retrieveBatch          *)
(***************************************************************************)
\* LLMNode.createBatch(inputs) with k inputs, up to the vendor accepting the
\* job.  A provider without batch support makes it throw before anything
\* is rendered.
CreateBatch(k) ==
    /\ vBatch = None
    /\ bInputs' = k
    /\ IF ~supportsBatch(bConfig.provider)
       THEN /\ bError' = <<"Provider '", bConfig.provider,
                            "' does not support batch processing.">>
            /\ UNCHANGED <<bRequests, bMeta, vBatch>>
       ELSE IF mandatesMaxTokens(bConfig.provider) /\ ~maxTokensSet
       THEN /\ bRequests' = batchRequests(k)
            /\ bError' = <<"maxTokens is required for Anthropic batch requests">>
            /\ UNCHANGED <<bMeta, vBatch>>
       ELSE LET requests == batchRequests(k)
            IN /\ bRequests' = requests
               /\ bError' = <<>>
               /\ vBatch' = Some(
                     [status |-> IF bConfig.provider = "openai" THEN "validating"
                                 ELSE "in_progress",
                      endpoint |-> IF bConfig.provider # "openai" THEN "/v1/messages/batches"
                                   ELSE IF shouldUseResponsesAPI(bConfig.model)
                                        THEN "/v1/responses" ELSE "/v1/chat/completions",
                      ids |-> [j \in 1..k |-> requests[j].customId],
                      output |-> <<>>,
                      errors |-> <<>>])
               /\ bMeta' = Some([batchId |-> "batch_1", provider |-> bConfig.provider,
                                 model |-> bConfig.model, requestCount |-> k])
    /\ UNCHANGED <<bConfig, bNode, bUsageRecords, bResult, bSeen, corr, nonBatchVars>>

\* The unified BatchStatus values
BatchStatus ==
    {"validating", "in_progress", "finalizing", "completed", "failed", "expired",
     "cancelling", "cancelled"}

\* The status values each vendor's API lists for a batch
OpenAIStatuses == BatchStatus
AnthropicStatuses == {"in_progress", "canceling", "ended"}

\* A status value that the vendor's API does not list
Unlisted == "unlisted"

\* The vendor's job moves to another status that has no results.
VendorStatusSteps ==
    { <<"validating", "in_progress">>, <<"validating", "failed">>,
      <<"in_progress", "finalizing">>, <<"in_progress", "expired">>,
      <<"in_progress", "cancelling">>, <<"cancelling", "cancelled">>,
      <<"in_progress", "canceling">>, <<"in_progress", Unlisted>> }

VendorAdvance(from, to) ==
    /\ IsSome(vBatch)
    /\ <<from, to>> \in VendorStatusSteps
    /\ Get(vBatch).status = from
    /\ to \in (IF bConfig.provider = "anthropic" THEN AnthropicStatuses
               ELSE OpenAIStatuses) \cup {Unlisted}
    /\ vBatch' = Some([Get(vBatch) EXCEPT !.status = to])
    /\ UNCHANGED <<bConfig, bNode, bUsageRecords, bInputs, bRequests, bMeta, bError, bResult, bSeen,
                   corr, nonBatchVars>>

Orders(k) == {o \in [1..k -> 1..k] : \A i, j \in 1..k : o[i] = o[j] => i = j}

\* The vendor finishes the job: every request gets an outcome, and the
\* entries are written in an order of the vendor's choosing.  The error file
\* lists its entries in the same relative order; an id is in both files only
\* for the outcome "200+errfile", whose error line retrieveBatch drops.
VendorFinish ==
    /\ IsSome(vBatch)
    /\ Get(vBatch).status \in (IF bConfig.provider = "openai" THEN {"finalizing"}
                                ELSE {"in_progress", "canceling"})
    /\ LET b == Get(vBatch)
           k == Len(b.ids)
           openai == bConfig.provider = "openai"
       IN \E order \in Orders(k) :
            \E outcome \in [1..k -> IF openai THEN OpenAIOutcomes ELSE AnthropicOutcomes] :
                vBatch' = Some([b EXCEPT
                    !.status = IF openai THEN "completed" ELSE "ended",
                    !.output = EntriesOf(order, outcome, b.ids, FALSE),
                    !.errors = IF openai THEN EntriesOf(order, outcome, b.ids, TRUE)
                               ELSE <<>>])
    /\ UNCHANGED <<bConfig, bNode, bUsageRecords, bInputs, bRequests, bMeta, bError, bResult, bSeen,
                   corr, nonBatchVars>>

\* LLMNode.retrieveBatch(metadata), from the call to the returned result.
RetrieveBatch ==
    /\ IsSome(bMeta)
    /\ IsSome(vBatch)
    /\ Len(bUsageRecords) < MaxRetrievals
    /\ LET providerResponse ==
              providerRetrieveBatch(bConfig.provider, Get(vBatch), Get(bMeta))
           r == nodeRetrieveBatch(bUsageRecords, bConfig, providerResponse)
           completed == IF IsSome(bSeen) /\ Get(bSeen).node = bNode
                        THEN Get(bSeen).completed ELSE 0
       IN /\ completed < MaxRetrievals
          /\ bResult' = Some(r.result)
          /\ bUsageRecords' = r.records
          /\ bSeen' = Some([vendor |-> Get(vBatch), response |-> providerResponse,
                            node |-> bNode,
                            completed |-> IF providerResponse.status = "completed"
                                          THEN completed + 1 ELSE completed])
    /\ bError' = <<>>
    /\ UNCHANGED <<bConfig, bNode, bInputs, bRequests, bMeta, vBatch, corr, nonBatchVars>>

\* LLMNode.retrieveBatch(metadata) when provider.retrieveBatch rejects: the
\* error leaves the method at the await, before anything is parsed or
\* recorded, and the caller gets no result.
RetrieveBatchFails ==
    /\ IsSome(bMeta)
    /\ IsSome(vBatch)
    /\ bError' = <<providerError.name, providerError.message>>
    /\ UNCHANGED <<bConfig, bNode, bUsageRecords, bInputs, bRequests, bMeta, bResult, bSeen,
                   vBatch, corr, nonBatchVars>>

NextBatch ==
    \/ \E k \in 0..MaxInputs : CreateBatch(k)
    \/ \E st \in VendorStatusSteps : VendorAdvance(st[1], st[2])
    \/ VendorFinish
    \/ RetrieveBatch
    \/ RetrieveBatchFails

InitBatch ==
    /\ ExecInit
    /\ StreamInit
    /\ BatchInit
    /\ maxTokensSet = TRUE
    /\ snConfig = [provider |-> "openai", model |-> "gpt-4o"]
    /\ NodeIdle
    /\ InvokeIdle

SpecBatch == InitBatch /\ [][NextBatch]_vars

(***************************************************************************)
(* SpecMeta: the caller keeps the BatchMetadata and retrieves the batch    *)
(* with another node of the same configuration                             *)
(***************************************************************************)
\* The caller builds a second node with the same llmConfig (as a process
\* started later does) and uses it from then on.  The new node has an empty
\* ledger and has never run createBatch; the caller still has the metadata.
UseOtherNode ==
    /\ bNode = 1
    /\ IsSome(bMeta)
    /\ bNode' = 2
    /\ bUsageRecords' = <<>>
    /\ bRequests' = <<>>
    /\ bError' = <<>>
    /\ UNCHANGED <<bConfig, bInputs, bMeta, bResult, bSeen, vBatch, corr, nonBatchVars>>

NextMeta ==
    \/ \E k \in 0..MaxInputs : CreateBatch(k)
    \/ \E st \in VendorStatusSteps : VendorAdvance(st[1], st[2])
    \/ VendorFinish
    \/ RetrieveBatch
    \/ UseOtherNode

SpecMeta == InitBatch /\ [][NextMeta]_vars

(***************************************************************************)
(* SpecCorr: the correlation id of each request, there and back            *)
(***************************************************************************)
\* createBatch with k inputs builds its requests.
CorrCreate(k) ==
    /\ bRequests = <<>>
    /\ supportsBatch(bConfig.provider)
    /\ bInputs' = k
    /\ bRequests' = batchRequests(k)
    /\ UNCHANGED <<bConfig, bNode, bUsageRecords, bMeta, bError, bResult, bSeen, vBatch, corr,
                   nonBatchVars>>

\* retrieveBatch maps the provider item that answers the request at position
\* pos (zero-based); the vendor echoes the request's custom_id.
CorrRetrieve(pos) ==
    /\ pos \in 0..(Len(bRequests) - 1)
    /\ LET customId == bRequests[pos + 1].customId
       IN corr' = Some([pos |-> pos, customId |-> customId,
                        index |-> batchItemResult(
                                     Item(customId, "success", Some("c1"), None, None)).index])
    /\ UNCHANGED <<bConfig, bNode, bUsageRecords, bInputs, bRequests, bMeta, bError, bResult, bSeen,
                   vBatch, nonBatchVars>>

NextCorr ==
    \/ \E k \in 1..MaxCorrInputs : CorrCreate(k)
    \/ \E pos \in 0..(MaxCorrInputs - 1) : CorrRetrieve(pos)

SpecCorr == InitBatch /\ [][NextCorr]_vars

(***************************************************************************)
(* SpecConfig: nodes built with or without maxTokens; one caller makes     *)
(* calls of one kind: execute, invokeStream or createBatch                 *)
(***************************************************************************)
InitConfig ==
    /\ ExecInit
    /\ StreamInit
    /\ BatchInit
    /\ maxTokensSet \in BOOLEAN
    /\ snConfig = [provider |-> "openai", model |-> "gpt-4o"]
    /\ NodeIdle
    /\ InvokeIdle

NoExecuteYet == pc[1] = "idle"
NoStreamYet == sPhase = "idle"
NoBatchYet == bRequests = <<>> /\ bError = <<>> /\ vBatch = None

NextConfig ==
    \/ \E n \in Nodes : NoStreamYet /\ NoBatchYet /\ Execute(1, Leaf(n), "in")
    \/ \E response \in Responses : InvokeReturns(1, response)
    \/ InvokeFails(1)
    \/ \E a \in Adapters, model \in Models :
          NoExecuteYet /\ NoBatchYet /\ InvokeStream(a, model, maxTokensSet)
    \/ \E k \in 0..MaxInputs : NoExecuteYet /\ NoStreamYet /\ CreateBatch(k)

SpecConfig == InitConfig /\ [][NextConfig]_vars

(***************************************************************************)
(* Properties of the ledger and of execute                                 *)
(***************************************************************************)

\* C1: after any sequence of execute calls whose invoke succeeded since the
\* node's last clearUsageRecords, getTotalTokenUsage() reports as
\* inputTokens the sum of the input tokens those calls reported, as
\* outputTokens the sum of their output tokens and as totalTokens the sum of
\* the two, and the ledger holds one record per reporting call.
C1_TotalIsSumOfCalls ==
    \A n \in Nodes :
        LET total == getTotalTokenUsage(usageRecords[n])
        IN /\ total.inputTokens = reported[n].inputTokens
           /\ total.outputTokens = reported[n].outputTokens
           /\ total.totalTokens = reported[n].inputTokens + reported[n].outputTokens
           /\ Len(usageRecords[n]) = reported[n].n

C1_Witness ==
    \E n \in Nodes :
        /\ reported[n].n = 3
        /\ reported[n].inputTokens = MaxTok
        /\ reported[n].outputTokens = 3 * MaxTok + 1
        /\ \A t \in Tasks : pc[t] = "done"

\* The events execute appended in the step, for a task that was suspended
\* in provider.invoke.
NewEvents(t) == SubSeq(events'[t], Len(events[t]) + 1, Len(events'[t]))

\* C2: in the step in which an execute call returns its result, the
\* provider's invoke has returned first, then the call's UsageRecord has
\* been appended to the node's ledger (when the response reported usage),
\* and only then the parsed result is returned: the ledger already holds the
\* record when the caller gets the result.
C2_RecordBetweenInvokeAndReturn ==
    [][ \A t \in Tasks :
          (pc[t] = "invoking" /\ pc'[t] \in {"done", "between"}) =>
             LET n == cur[t]
                 new == NewEvents(t)
             IN /\ new[1].ev = "invoke_returned"
                /\ new[Len(new)].ev = "result_returned"
                /\ IF reported'[n].n > reported[n].n
                   THEN /\ Len(new) = 3
                        /\ new[2].ev = "record_appended"
                        /\ Len(usageRecords'[n]) = Len(usageRecords[n]) + 1
                        /\ usageRecords'[n][Len(usageRecords'[n])].tokenUsage
                              = Get(new[2].usage)
                        /\ Get(new[2].usage).inputTokens
                              = reported'[n].inputTokens - reported[n].inputTokens
                        /\ Get(new[2].usage).outputTokens
                              = reported'[n].outputTokens - reported[n].outputTokens
                   ELSE /\ Len(new) = 2
                        /\ usageRecords'[n] = usageRecords[n] ]_vars

C2_Witness ==
    \E t \in Tasks :
        /\ pc[t] = "done"
        /\ Len(events[t]) = 4
        /\ events[t][2].ev = "invoke_returned"
        /\ events[t][3].ev = "record_appended"
        /\ events[t][4].ev = "result_returned"
        /\ Len(usageRecords[cur[t]]) > 0

(***************************************************************************)
(* Properties of pipelines                                                 *)
(***************************************************************************)
StartIndexes(t) == {k \in 1..Len(events[t]) : events[t][k].ev = "start"}

\* The stages started so far by task t's call, in order.
RECURSIVE StartedFrom(_, _)
StartedFrom(evs, k) ==
    IF k > Len(evs) THEN <<>>
    ELSE (IF evs[k].ev = "start" THEN <<evs[k].node>> ELSE <<>>) \o StartedFrom(evs, k + 1)

IsPrefix(a, b) == Len(a) <= Len(b) /\ a = SubSeq(b, 1, Len(a))

\* C3: a composite's execute is strictly sequential.  A stage after the
\* first is started only when the stage before it has returned its result,
\* and it is given that result as input; the stages start in pipeline
\* order; once a stage has thrown no further stage is started and the
\* caller's call has failed.
C3_PipeSequential ==
    \A t \in Tasks :
        /\ \A k \in StartIndexes(t) :
              k > 1 => /\ events[t][k - 1].ev = "result_returned"
                       /\ events[t][k].val = events[t][k - 1].val
        /\ pc[t] # "idle" => IsPrefix(StartedFrom(events[t], 1), Stages(called[t]))
        /\ \A j \in 1..Len(events[t]) :
              events[t][j].ev = "threw" => j = Len(events[t]) /\ pc[t] = "failed"

C3_Witness ==
    \E t \in Tasks :
        /\ called[t] = pipe("A", Leaf("B"))
        /\ pc[t] = "done"
        /\ StartedFrom(events[t], 1) = <<"A", "B">>
        /\ value[t] = "p1"

C3_WitnessFailure ==
    \E t \in Tasks :
        /\ called[t] = pipe("A", Leaf("B"))
        /\ pc[t] = "failed"
        /\ StartedFrom(events[t], 1) = <<"A">>

Sum(a, b) ==
    [inputTokens |-> a.inputTokens + b.inputTokens,
     outputTokens |-> a.outputTokens + b.outputTokens,
     totalTokens |-> a.inputTokens + b.inputTokens + a.outputTokens + b.outputTokens]

TracksUsage(x) == {"getUsageRecords", "getTotalTokenUsage"} \subseteq Members(x)

\* C4: for a composite A.pipe(B) whose stage B tracks usage, in every state
\* the composite's getTotalTokenUsage() is the elementwise sum of A's and
\* B's totals, with totalTokens = inputTokens + outputTokens, and its
\* getUsageRecords() is A's records followed by B's.
C4_PipeUsageIsSum ==
    (IsSome(built) /\ TracksUsage(Get(built).next[1])) =>
        LET A == Leaf(Get(built).name)
            B == Get(built).next[1]
            total == pipeGetTotalTokenUsage(Get(built))
        IN /\ total = Sum(getTotalTokenUsage(usageRecords[A.name]),
                          pipeGetTotalTokenUsage(B))
           /\ total.totalTokens = total.inputTokens + total.outputTokens
           /\ pipeGetUsageRecords(Get(built))
                 = usageRecords[A.name] \o pipeGetUsageRecords(B)

C4_Witness ==
    /\ built = Some(pipe("A", Leaf("B")))
    /\ Len(usageRecords["A"]) = 1
    /\ Len(usageRecords["B"]) = 2
    /\ pipeGetTotalTokenUsage(Get(built)).totalTokens >= 3 * MaxTok + 1

ThreeStages(x) ==
    /\ Depth(x) = 3
    /\ \A k \in 1..3 : Stages(x)[k] \in Nodes

\* C5: three stages chain by repeated pairwise composition in either
\* nesting, A.pipe(B).pipe(C) and A.pipe(B.pipe(C)): no pipe call of the
\* chain fails, and the pipeline's total usage is the sum of the three
\* stages' totals.
C5_BothNestingsChain ==
    /\ IsSome(lastPipe) => Get(lastPipe).ok
    /\ (IsSome(built) /\ ThreeStages(Get(built))) =>
          LET st == Stages(Get(built))
          IN pipeGetTotalTokenUsage(Get(built))
                = Sum(Sum(getTotalTokenUsage(usageRecords[st[1]]),
                          getTotalTokenUsage(usageRecords[st[2]])),
                      getTotalTokenUsage(usageRecords[st[3]]))

(***************************************************************************)
(* Properties of invokeStream                                              *)
(***************************************************************************)
UsageChunks == {k \in 1..Len(chunks) : IsSome(chunks[k].tokenUsage)}

\* C6: when the vendor's event sequence ends normally, whatever the adapter
\* and the API style, the chunks invokeStream has emitted are a non-empty
\* sequence in which exactly one chunk carries tokenUsage; that chunk is the
\* last one and its text is empty.  No chunk emitted before the end carries
\* tokenUsage.
C6_OneTerminalChunk ==
    /\ sPhase = "ended" =>
          /\ Len(chunks) >= 1
          /\ UsageChunks = {Len(chunks)}
          /\ chunks[Len(chunks)].text = ""
    /\ sPhase # "ended" => UsageChunks = {}

C6_Witness ==
    /\ sPhase = "ended"
    /\ sStyle = "chat"
    /\ sModel = "gpt-4o"
    /\ Len(chunks) = 3
    /\ chunks[1].text = "x"

\* C7: every chunk without tokenUsage that invokeStream emits has non-empty
\* text, also when the vendor sends text deltas whose text is empty or
\* missing.
C7_NonTerminalChunksHaveText ==
    \A k \in 1..Len(chunks) :
        ~IsSome(chunks[k].tokenUsage) => Truthy(chunks[k].text)

\* C8: when the vendor's raw stream ends normally and never reported usage,
\* the terminal chunk is still emitted and its tokenUsage has inputTokens 0
\* and outputTokens 0.
C8_ZeroUsageTerminal ==
    (sPhase = "ended" /\ ~sawUsage) =>
        /\ Len(chunks) >= 1
        /\ chunks[Len(chunks)].tokenUsage = Some([inputTokens |-> 0, outputTokens |-> 0])

C8_Witness ==
    /\ sPhase = "ended"
    /\ ~sawUsage
    /\ nEvents = MaxEvents
    /\ sAdapter = "bedrock"
    /\ Len(chunks) = 3

(***************************************************************************)
(* Properties of batches                                                   *)
(***************************************************************************)
CompletedResults ==
    IF IsSome(bResult) /\ IsSome(Get(bResult).results)
    THEN Get(Get(bResult).results) ELSE <<>>

HasCompletedResult == IsSome(bResult) /\ IsSome(Get(bResult).results)

\* C9: for K inputs given to createBatch, a retrieveBatch that finds the
\* batch completed returns exactly K items, one per input, whose index
\* values are 0..K-1 in ascending order, whatever order the vendor wrote
\* them in and whichever of the output and the error source each came from.
C9_BatchResultsInInputOrder ==
    HasCompletedResult =>
        /\ Len(CompletedResults) = bInputs
        /\ \A j \in 1..Len(CompletedResults) : CompletedResults[j].index = j - 1

\* A completed OpenAI batch of at least two requests whose output file does
\* not start with request 0 and whose error file is not empty.
C9_Witness ==
    /\ HasCompletedResult
    /\ bInputs >= 2
    /\ Len(Get(vBatch).output) > 0
    /\ Get(vBatch).output[1].custom_id # customIdOf(0)
    /\ Len(Get(vBatch).errors) > 0
    /\ Len(CompletedResults) = bInputs

\* C10: createBatch gives the i-th input (zero-based) the customId "req-i",
\* and retrieveBatch recovers i from it, so a returned item's index is the
\* position of its input in the array given to createBatch.
C10_CustomIdRoundTrip ==
    /\ \A j \in 1..Len(bRequests) :
          /\ SubSeq(bRequests[j].customId, 1, 4) = <<"r", "e", "q", "-">>
          /\ indexOfCustomId(bRequests[j].customId) = j - 1
    /\ Len(bRequests) >= 11 => bRequests[11].customId = <<"r", "e", "q", "-", "1", "0">>
    /\ IsSome(corr) => Get(corr).index = Get(corr).pos

\* The item of the input at position 12 came back with index 12.
C10_Witness ==
    /\ IsSome(corr)
    /\ Get(corr).pos = 12
    /\ Get(corr).customId = <<"r", "e", "q", "-", "1", "2">>
    /\ Get(corr).index = 12

\* The items the adapter handed to the node in the last retrieveBatch
SeenItems ==
    IF IsSome(bSeen) /\ IsSome(Get(bSeen).response.results)
    THEN Get(Get(bSeen).response.results) ELSE <<>>

\* The returned items that answer the provider item p
ResultsFor(p) ==
    {k \in 1..Len(CompletedResults) : customIdOf(CompletedResults[k].index) = p.customId}

\* The provider reported success with content, and the node's parser throws
\* on that content.
ParserFailsOn(p) ==
    /\ p.status = "success"
    /\ IsSome(p.content)
    /\ Get(p.content) # ""
    /\ parserThrows(Get(p.content))

\* C11: when the parser throws on the content of an item of a completed
\* batch, retrieveBatch still returns (the only error a retrieveBatch call
\* throws is the provider's); that item has status "failed", a
\* non-empty error and no output, and every other item the provider reported
\* as success keeps status "success".
C11_ParseFailureIsPerItem ==
    HasCompletedResult =>
        /\ bError \in {<<>>, <<providerError.name, providerError.message>>}
        /\ \A j \in 1..Len(SeenItems) :
              /\ ResultsFor(SeenItems[j]) # {}
              /\ \A k \in ResultsFor(SeenItems[j]) :
                    LET r == CompletedResults[k]
                    IN IF ParserFailsOn(SeenItems[j])
                       THEN /\ r.status = "failed"
                            /\ IsSome(r.error)
                            /\ Get(r.error) # ""
                            /\ ~IsSome(r.output)
                       ELSE SeenItems[j].status = "success" => r.status = "success"

\* The provider reported every item as success, the parser throws on exactly
\* one of them, and the other one comes back as success.
C11_Witness ==
    /\ HasCompletedResult
    /\ Len(SeenItems) = 2
    /\ Cardinality({j \in 1..2 : ParserFailsOn(SeenItems[j])}) = 1
    /\ Cardinality({j \in 1..2 : SeenItems[j].status = "success"}) = 2
    /\ Cardinality({k \in 1..2 : CompletedResults[k].status = "success"}) = 1
    /\ Cardinality({k \in 1..2 : CompletedResults[k].status = "failed"}) = 1

\* The node's parser was applied to the content of p and returned
ParsedOn(p) ==
    /\ p.status = "success"
    /\ IsSome(p.content)
    /\ Get(p.content) # ""
    /\ ~parserThrows(Get(p.content))

\* C12: in every BatchItemResult that retrieveBatch returns, output is
\* present if and only if the item's status is "success" and the parser
\* succeeded on the item's content; the output is then what the parser
\* returned.  Content that is absent or empty is not parsed.
C12_OutputIffParsed ==
    HasCompletedResult =>
        \A j \in 1..Len(SeenItems) :
            \A k \in ResultsFor(SeenItems[j]) :
                LET r == CompletedResults[k]
                IN /\ IsSome(r.output) <=> (r.status = "success" /\ ParsedOn(SeenItems[j]))
                   /\ IsSome(r.output) => Get(r.output) = parser(Get(SeenItems[j].content))

\* One result holds an item with output and a success without content,
\* which has no output.
C12_Witness ==
    /\ HasCompletedResult
    /\ \E k \in 1..Len(CompletedResults) : IsSome(CompletedResults[k].output)
    /\ \E k \in 1..Len(CompletedResults) :
          /\ CompletedResults[k].status = "success"
          /\ ~IsSome(CompletedResults[k].output)

\* The sum of one token count over the items that carry tokenUsage
RECURSIVE ItemTokens(_, _)
ItemTokens(items, output) ==
    IF items = <<>> THEN 0
    ELSE (IF IsSome(Head(items).tokenUsage)
          THEN (IF output THEN Get(Head(items).tokenUsage).outputTokens
                ELSE Get(Head(items).tokenUsage).inputTokens)
          ELSE 0) + ItemTokens(Tail(items), output)

\* A step in which retrieveBatch ran to its end
RetrieveStep == bSeen' # bSeen \/ bResult' # bResult \/ bUsageRecords' # bUsageRecords

\* C13: a retrieveBatch that returns status completed with results appends
\* exactly one UsageRecord to the node's ledger; its inputTokens and
\* outputTokens are the sums of the token usages of the returned items.
C13_OneRecordPerRetrieval ==
    [][ (RetrieveStep /\ IsSome(bResult') /\ IsSome(Get(bResult').results)) =>
            /\ Len(bUsageRecords') = Len(bUsageRecords) + 1
            /\ SubSeq(bUsageRecords', 1, Len(bUsageRecords)) = bUsageRecords
            /\ bUsageRecords'[Len(bUsageRecords')].tokenUsage =
                  [inputTokens |-> ItemTokens(Get(Get(bResult').results), FALSE),
                   outputTokens |-> ItemTokens(Get(Get(bResult').results), TRUE)]
            /\ bUsageRecords'[Len(bUsageRecords')].provider = bConfig.provider
            /\ bUsageRecords'[Len(bUsageRecords')].model = bConfig.model ]_vars

\* One record stands for a retrieval of two items that both carry usage.
C13_Witness ==
    /\ HasCompletedResult
    /\ Len(CompletedResults) = 2
    /\ Cardinality({k \in 1..2 : IsSome(CompletedResults[k].tokenUsage)}) = 2
    /\ Len(bUsageRecords) = 1
    /\ bUsageRecords[1].tokenUsage.inputTokens = ItemTokens(CompletedResults, FALSE)
    /\ bUsageRecords[1].tokenUsage.inputTokens > MaxTok

\* C14: retrieveBatch is idempotent and free of side effects: a call changes
\* no state of the node, a call that finds the vendor's batch as the previous
\* call found it returns an equal result, and every call returns what the
\* vendor's batch is at the time of the call.
C14_RetrievalIdempotent ==
    [][ RetrieveStep =>
            /\ bUsageRecords' = bUsageRecords
            /\ (IsSome(bSeen) /\ Get(bSeen).vendor = Get(vBatch)) => bResult' = bResult
            /\ Get(bSeen').vendor = Get(vBatch)
            /\ Get(bResult').status = Get(bSeen').response.status ]_vars

\* The part of C14 that holds: equal results for an unchanged vendor state,
\* and the vendor's current state in every result.
C14_ResultsReflectVendor ==
    [][ RetrieveStep =>
            /\ (IsSome(bSeen) /\ Get(bSeen).vendor = Get(vBatch)) => bResult' = bResult
            /\ Get(bSeen').vendor = Get(vBatch)
            /\ Get(bResult').status = Get(bSeen').response.status ]_vars

\* retrieveBatch was called twice on the same completed batch and the ledger
\* holds the batch's usage twice.
C14_DoubleCounted ==
    /\ HasCompletedResult
    /\ Len(bUsageRecords) = 2
    /\ bUsageRecords[1].tokenUsage = bUsageRecords[2].tokenUsage
    /\ bUsageRecords[1].tokenUsage.inputTokens > 0

\* The vendor's batch is in a state in which its results can be read
VendorDone(batch) == batch.status \in {"completed", "ended"}

\* C15: a results array is returned only with status completed.  When the
\* vendor's batch is in any other state, the adapter returns no per-item
\* results, and retrieveBatch returns the adapter's status and request
\* counts unchanged, without results, and leaves the ledger alone.
C15_ResultsOnlyWhenCompleted ==
    [][ RetrieveStep =>
            LET seen == Get(bSeen')
                result == Get(bResult')
            IN /\ IsSome(result.results) => result.status = "completed"
               /\ ~VendorDone(seen.vendor) =>
                     /\ ~IsSome(seen.response.results)
                     /\ seen.response.status # "completed"
                     /\ result.status = seen.response.status
                     /\ result.requestCounts = seen.response.requestCounts
                     /\ ~IsSome(result.results)
                     /\ bUsageRecords' = bUsageRecords ]_vars

\* retrieveBatch found the OpenAI batch expired and passed that on
C15_Witness ==
    /\ IsSome(bSeen)
    /\ Get(bSeen).vendor.status = "expired"
    /\ Get(bResult).status = "expired"
    /\ ~IsSome(Get(bResult).results)
    /\ Get(bResult).requestCounts.total = 2
    /\ bUsageRecords = <<>>

\* The unified status that stands for a status the vendor's API lists
UnifiedOf(provider, status) ==
    IF provider = "openai" THEN status
    ELSE CASE status = "in_progress" -> "in_progress"
           [] status = "canceling" -> "cancelling"
           [] status = "ended" -> "completed"

ListedStatuses(provider) ==
    IF provider = "openai" THEN OpenAIStatuses ELSE AnthropicStatuses

C16_WitnessOpenAIFinalizing ==
    /\ IsSome(bSeen)
    /\ bConfig.provider = "openai"
    /\ Get(bSeen).vendor.status = "finalizing"
    /\ Get(bResult).status = "finalizing"

\* The vendor ended the batch by cancellation or by expiry: some request was
\* never processed because of it.
EndedByCancelOrExpiry(batch) ==
    \E k \in 1..Len(batch.output) : batch.output[k].type \in {"canceled", "expired"}

\* C17: an adapter reports status completed only for a batch that ended
\* successfully.  A status the vendor's API does not list is not reported as
\* completed, and neither is a batch that the vendor ended by expiry,
\* cancellation or failure of the job.
C17_CompletedOnlyIfSuccessful ==
    (IsSome(bSeen) /\ Get(bSeen).response.status = "completed") =>
        /\ Get(bSeen).vendor.status \in {"completed", "ended"}
        /\ ~EndedByCancelOrExpiry(Get(bSeen).vendor)

\* The part of C17 that holds: a status without unified equivalent, and the
\* OpenAI statuses failed, expired and cancelled, are not reported as
\* completed.
C17_UnlistedNotCompleted ==
    (IsSome(bSeen) /\ Get(bSeen).vendor.status \notin {"completed", "ended"}) =>
        /\ Get(bSeen).response.status # "completed"
        /\ Get(bResult).status # "completed"

\* An Anthropic batch whose requests were all canceled came back as completed
C17_CanceledReportedCompleted ==
    /\ IsSome(bSeen)
    /\ bConfig.provider = "anthropic"
    /\ Len(Get(bSeen).vendor.output) = 2
    /\ \A k \in 1..2 : Get(bSeen).vendor.output[k].type = "canceled"
    /\ Get(bResult).status = "completed"

\* The positions of the items with correlation id in a list of provider items
ItemsWithId(items, id) == {k \in 1..Len(items) : items[k].customId = id}

\* The positions of the vendor's entries for a correlation id
EntriesWithId(entries, id) == {k \in 1..Len(entries) : entries[k].custom_id = id}

\* C18: when OpenAI retrieveBatch merges the output file and the error file,
\* the merged list holds exactly one item for each correlation id, and for
\* an id that has a line in the output file the item is the one made from
\* that line: a line of the error file with the same id neither replaces it
\* nor adds a second item.
C18_FirstSeenWins ==
    (IsSome(bSeen) /\ bConfig.provider = "openai" /\ IsSome(Get(bSeen).response.results)) =>
        LET batch == Get(bSeen).vendor
            items == Get(Get(bSeen).response.results)
        IN \A j \in 1..Len(batch.ids) :
              LET id == batch.ids[j]
              IN /\ Cardinality(ItemsWithId(items, id)) = 1
                 /\ \A e \in EntriesWithId(batch.output, id) :
                       \A k \in ItemsWithId(items, id) :
                          /\ batch.output[e].type = "200" =>
                                /\ items[k].status = "success"
                                /\ ~IsSome(items[k].error)
                          /\ batch.output[e].type # "200" =>
                                /\ items[k].status = "failed"
                                /\ items[k].error = Some("HTTP 400")

\* A request has a line in both files, and the merged list holds the item of
\* the output file for it.
C18_Witness ==
    /\ IsSome(bSeen)
    /\ bConfig.provider = "openai"
    /\ IsSome(Get(bSeen).response.results)
    /\ \E j \in 1..Len(Get(bSeen).vendor.ids) :
          LET id == Get(bSeen).vendor.ids[j]
          IN /\ EntriesWithId(Get(bSeen).vendor.output, id) # {}
             /\ EntriesWithId(Get(bSeen).vendor.errors, id) # {}
             /\ \E k \in ItemsWithId(Get(Get(bSeen).response.results), id) :
                   Get(Get(bSeen).response.results)[k].status = "success"

\* A step in which createBatch ran to its end
CreateStep ==
    \/ bInputs' # bInputs
    \/ bError' # bError
    \/ bRequests' # bRequests
    \/ bMeta' # bMeta

\* C19: createBatch on a node whose provider does not support batches
\* (Bedrock, Google GenAI) fails with an error that names the provider; no
\* request is built, no prompt rendered, no batch reaches a vendor, no
\* metadata is returned, and the node's ledger is as before.
C19_UnsupportedProviderFailsFirst ==
    [][ (CreateStep /\ bConfig.provider \in {"bedrock", "google"}) =>
            /\ Len(bError') = 3
            /\ bError'[2] = bConfig.provider
            /\ bError'[3] = "' does not support batch processing."
            /\ bRequests' = <<>>
            /\ bMeta' = None
            /\ vBatch' = None
            /\ bUsageRecords' = bUsageRecords
            /\ bResult' = bResult ]_vars

\* createBatch with two inputs has failed on a Bedrock node
C19_Witness ==
    /\ bConfig.provider = "bedrock"
    /\ bInputs = 2
    /\ bError = <<"Provider '", "bedrock", "' does not support batch processing.">>
    /\ bRequests = <<>>
    /\ vBatch = None

(***************************************************************************)
(* Properties of the configuration checks                                  *)
(***************************************************************************)
LastEvent(t) == events[t][Len(events[t])]

C20_WitnessStream ==
    /\ ~maxTokensSet
    /\ sAdapter = "anthropic"
    /\ sPhase = "failed"
    /\ sError = "maxTokens is required for Anthropic models"

\* createBatch has failed on an Anthropic node for lack of maxTokens
C20_WitnessBatch ==
    /\ ~maxTokensSet
    /\ bConfig.provider = "anthropic"
    /\ bInputs = 2
    /\ bError = <<"maxTokens is required for Anthropic batch requests">>
    /\ vBatch = None

\* With maxTokens set the same calls reach the vendor
C20_WitnessSet ==
    /\ maxTokensSet
    /\ cur[1] = "B"
    /\ pc[1] = "invoking"

(***************************************************************************)
(* Properties of the errors execute fails with                             *)
(***************************************************************************)
\* The call of task t has failed, and what it threw
Failed(t) == pc[t] = "failed" /\ events[t] # <<>> /\ LastEvent(t).ev = "threw"

\* The failure came from the parser: invoke had returned before it
ParserThrew(t) ==
    /\ Failed(t)
    /\ Len(events[t]) >= 2
    /\ events[t][Len(events[t]) - 1].ev \in {"invoke_returned", "record_appended"}

\* The failure came from provider.invoke: the stage had only started
InvokeThrew(t) ==
    /\ Failed(t)
    /\ Len(events[t]) >= 2
    /\ events[t][Len(events[t]) - 1].ev = "start"
    /\ LastEvent(t).val.name = "APIError"

\* C21: execute distinguishes its two failure kinds.  When the parser throws
\* on a successful vendor response the caller receives a ParseError that
\* wraps the parser's own error; when the provider's invoke fails the caller
\* receives the provider's error unmodified.
C21_ParseErrorWrapsProviderErrorPasses ==
    \A t \in Tasks :
        /\ ParserThrew(t) =>
              /\ LastEvent(t).val.name = "ParseError"
              /\ IsSome(LastEvent(t).val.cause)
              /\ Get(LastEvent(t).val.cause) \in {parserError(c) : c \in Contents}
        /\ InvokeThrew(t) => LastEvent(t).val = providerError

\* What the code does: both failures reach the caller as they were thrown,
\* the parser's error as the parser threw it.
C21_BothPropagateUnwrapped ==
    \A t \in Tasks :
        /\ ParserThrew(t) => LastEvent(t).val = parserError("bad")
        /\ InvokeThrew(t) => LastEvent(t).val = providerError

\* A caller has received the parser's own error from execute
C21_ParserErrorReceived ==
    \E t \in Tasks : ParserThrew(t) /\ LastEvent(t).val.name = "SyntaxError"

(***************************************************************************)
(* Properties of StreamNode.stream                                         *)
(***************************************************************************)
\* C22: stream on a node whose provider has no invokeStream fails with a
\* capability error that names the provider; no prompt is rendered, the
\* provider is not called, no chunk is yielded and no usage record appended.
C22_NoInvokeStreamFailsFirst ==
    snConfig.provider \notin Adapters =>
        /\ snPhase \in {"none", "start", "threw", "returned"}
        /\ snPhase = "threw" =>
              snError = <<"Provider '", snConfig.provider, "' does not support streaming.">>
        /\ snPrompts = 0
        /\ sPhase = "idle"
        /\ sCalls = <<>>
        /\ snYielded = <<>>
        /\ snLedger = <<>>

\* The consumer of a stream on the Ollama node has asked for the first
\* element and got the error.
C22_Witness ==
    /\ snConfig.provider = "ollama"
    /\ snStreams = 1
    /\ snPhase = "threw"
    /\ snError = <<"Provider '", "ollama", "' does not support streaming.">>

\* The ledger as a reader sees it: each record with the TokenUsage its
\* tokenUsage field refers to
LedgerView ==
    [k \in 1..Len(snLedger) |->
        [provider |-> snLedger[k].provider,
         model |-> snLedger[k].model,
         tokenUsage |-> heap[snLedger[k].tokenUsage]]]

\* C23: the usage ledger is append-only and owned by its node.  Between two
\* clearUsageRecords calls it changes only by the node appending one record
\* at its end, the records already in it never change, and nothing a caller
\* does with a value returned by getUsageRecords or getTotalTokenUsage, with
\* a stream chunk or with a batch result changes it.
C23_LedgerAppendOnly ==
    [][ LedgerView' # LedgerView =>
            \/ LedgerView' = <<>>
            \/ /\ Len(LedgerView') = Len(LedgerView) + 1
               /\ SubSeq(LedgerView', 1, Len(LedgerView)) = LedgerView
               /\ snPhase' = "done" ]_vars

\* The part of C23 that holds: the array of records itself changes only by
\* clearUsageRecords and by the node pushing one record.
C23_ArrayAppendOnly ==
    [][ snLedger' # snLedger =>
            \/ snLedger' = <<>>
            \/ /\ Len(snLedger') = Len(snLedger) + 1
               /\ SubSeq(snLedger', 1, Len(snLedger)) = snLedger ]_vars

\* A record of the ledger holds a count that a caller wrote
C23_RecordOverwritten ==
    \E k \in 1..Len(LedgerView) :
        \/ LedgerView[k].tokenUsage.inputTokens = Overwritten
        \/ LedgerView[k].tokenUsage.outputTokens = Overwritten

(***************************************************************************)
(* Properties of the batch metadata                                        *)
(***************************************************************************)
\* A step in which the node in use ran createBatch or retrieveBatch
SameNode == bNode' = bNode

\* C24: BatchMetadata alone is enough to retrieve, and the node holds no
\* batch state.  createBatch changes no state of the node (its ledger and
\* its configuration); retrieveBatch(metadata) on a node that never ran
\* createBatch returns a result, and when the vendor's batch is as the
\* submitting node's last retrieveBatch found it, the same result.
C24_MetadataSuffices ==
    [][ /\ (SameNode /\ CreateStep) =>
              /\ bUsageRecords' = bUsageRecords
              /\ bConfig' = bConfig
        /\ (SameNode /\ RetrieveStep /\ bNode = 2) =>
              /\ bError' = <<>>
              /\ IsSome(bResult')
              /\ Get(bSeen').node = 2
              /\ (IsSome(bSeen) /\ Get(bSeen).node = 1 /\ Get(bSeen).vendor = Get(vBatch)) =>
                    bResult' = bResult ]_vars

\* A node that never ran createBatch has retrieved a completed batch of two
\* requests from the metadata.
C24_Witness ==
    /\ bNode = 2
    /\ bRequests = <<>>
    /\ IsSome(bSeen)
    /\ Get(bSeen).node = 2
    /\ HasCompletedResult
    /\ Len(CompletedResults) = 2
    /\ Get(bMeta).requestCount = 2
    /\ Len(bUsageRecords) = 1

\* The statuses with which a provider reports that a request has no answer
FailureStatuses == {"failed", "expired", "cancelled"}

\* C25: failures of single requests are data, not exceptions.  retrieveBatch
\* on a completed batch that holds items the vendor reported as failed,
\* expired or cancelled returns normally with one BatchItemResult for each
\* provider item; such an item keeps its failed, expired or cancelled status
\* and has no output, and the result is as long as the provider's item list.
C25_ItemFailuresAreData ==
    (IsSome(bSeen) /\ IsSome(Get(bSeen).response.results)
        /\ Get(bSeen).response.status = "completed") =>
        /\ bError \in {<<>>, <<providerError.name, providerError.message>>}
        /\ HasCompletedResult
        /\ Len(CompletedResults) = Len(SeenItems)
        /\ \A j \in 1..Len(SeenItems) :
              SeenItems[j].status \in FailureStatuses =>
                 /\ Cardinality(ResultsFor(SeenItems[j])) = 1
                 /\ \A k \in ResultsFor(SeenItems[j]) :
                       /\ CompletedResults[k].status = SeenItems[j].status
                       /\ ~IsSome(CompletedResults[k].output)

\* A completed Anthropic batch of two requests, one cancelled and one
\* expired, came back as two items with those statuses.
C25_Witness ==
    /\ HasCompletedResult
    /\ bConfig.provider = "anthropic"
    /\ Len(CompletedResults) = 2
    /\ {CompletedResults[k].status : k \in 1..2} = {"cancelled", "expired"}

\* A completed OpenAI batch with one answered request and one failed one
C25_WitnessPartial ==
    /\ HasCompletedResult
    /\ bConfig.provider = "openai"
    /\ Len(CompletedResults) = 2
    /\ {CompletedResults[k].status : k \in 1..2} = {"success", "failed"}
    /\ \E k \in 1..2 : IsSome(CompletedResults[k].output)

\* The invokeStream in progress fell back to chat completions because the
\* Responses API call, the request this.client.responses.create, was
\* rejected.
FellBackOnCreate ==
    /\ Len(sCalls) = 2
    /\ sCalls[2].during = "creating"

C26_WitnessOtherStatus ==
    /\ iPhase = "failed"
    /\ Get(iResult) = [ok |-> FALSE, api |-> "responses", status |-> 500]
    /\ sPhase = "failed"
    /\ sStyle = "responses"

\* C27: a composite A.pipe(B) whose stage B has execute and no usage getter
\* reports A's usage alone: its getUsageRecords() is A's records and its
\* getTotalTokenUsage() is A's total, whatever B has executed.
C27_PlainStageNotQueried ==
    (IsSome(built) /\ Members(Get(built).next[1]) = {"execute"}) =>
        LET A == Get(built).name
        IN /\ pipeGetUsageRecords(Get(built)) = usageRecords[A]
           /\ pipeGetTotalTokenUsage(Get(built)) = getTotalTokenUsage(usageRecords[A])

\* The pipeline A.pipe(B) has run to the end, through the plain stage, and
\* A holds a record.
C27_Witness ==
    /\ built = Some(pipe("A", Plain))
    /\ called[1] = Get(built)
    /\ pc[1] = "done"
    /\ Len(usageRecords["A"]) >= 1
    /\ pipeGetTotalTokenUsage(Get(built)).totalTokens >= 1

\* The vendor's event sequence was a message_start with usage, content
\* deltas, then one or more message_delta events with usage, and it ended.
MessageStreamComplete ==
    /\ sStyle \in {"anthropic", "bedrock"}
    /\ sPhase = "ended"
    /\ sShape = "delta"

\* C28: on the Anthropic and Bedrock adapters, for one such vendor event
\* sequence, invoke with config.stream = true and invokeStream report the
\* same inputTokens and outputTokens.
C28_InvokeAndStreamAgree ==
    MessageStreamComplete =>
        LET streamed == Get(chunks[Len(chunks)].tokenUsage)
        IN /\ invokeUsage(iUsage).inputTokens = streamed.inputTokens
           /\ invokeUsage(iUsage).outputTokens = streamed.outputTokens

\* The same statement for the Anthropic adapter alone and for the Bedrock
\* adapter alone.
C28_AnthropicAgree == sStyle = "anthropic" => C28_InvokeAndStreamAgree
C28_BedrockAgree == sStyle = "bedrock" => C28_InvokeAndStreamAgree

\* The stream call in progress has yielded the adapter's terminal chunk.
TerminalYielded ==
    /\ Len(snYielded) >= 1
    /\ IsSome(snYielded[Len(snYielded)].tokenUsage)

\* C29: when a stream is consumed to exhaustion, the node has yielded the
\* provider's chunks unchanged and in order, and the step that completes the
\* generator, taken after the last chunk was yielded, appends exactly one
\* UsageRecord, whose tokenUsage is the terminal chunk's tokenUsage.
C29_ExhaustedStreamRecordsOnce ==
    [][(snPhase # "done" /\ snPhase' = "done") =>
          /\ snPos = Len(chunks)
          /\ Len(snYielded) = Len(chunks)
          /\ \A k \in 1..Len(chunks) :
                /\ snYielded[k].text = chunks[k].text
                /\ IsSome(snYielded[k].tokenUsage) <=> IsSome(chunks[k].tokenUsage)
          /\ snYielded' = snYielded
          /\ TerminalYielded
          /\ Len(snLedger') = Len(snLedger) + 1
          /\ SubSeq(snLedger', 1, Len(snLedger)) = snLedger
          /\ LET record == snLedger'[Len(snLedger')]
                 terminal == snYielded[Len(snYielded)]
             IN /\ record.tokenUsage = Get(terminal.tokenUsage)
                /\ heap'[record.tokenUsage] = heap[Get(terminal.tokenUsage)]
                /\ record.provider = snConfig.provider
                /\ record.model = snConfig.model]_vars

\* A text chunk and the terminal chunk were yielded, the stream is
\* exhausted and the ledger holds its record.
C29_Witness ==
    /\ snPhase = "done"
    /\ Len(snYielded) >= 2
    /\ snYielded[1].text = "x"
    /\ Len(snLedger) = 1
    /\ snLedger[1].tokenUsage = Get(snYielded[Len(snYielded)].tokenUsage)

\* C30: when the consumer stops iterating before the generator finishes,
\* the node records nothing for that stream, also when the consumer has
\* received the terminal chunk: the ledger holds no more records than
\* streams were exhausted.
C30_AbandonedStreamRecordsNothing ==
    snPhase = "returned" => Len(snLedger) <= snExhausted

\* The consumer received a text chunk and the terminal chunk, stopped, and
\* the ledger is empty.
C30_Witness ==
    /\ snPhase = "returned"
    /\ Len(snYielded) >= 2
    /\ TerminalYielded
    /\ IsSome(snFinalUsage)
    /\ snLedger = <<>>

C32_FailureLeavesLedgerConsistent ==
    [][\A t \in Tasks :
          (pc[t] = "invoking" /\ pc'[t] = "failed") =>
             LET n == cur[t]
                 evs == events'[t]
                 last == evs[Len(evs)]
                 prev == evs[Len(evs) - 1]
                 hadUsage == reported'[n].n = reported[n].n + 1
             IN /\ last.ev = "threw"
                /\ last.val = providerError =>
                      /\ evs = Append(events[t], last)
                      /\ prev.ev = "start"
                      /\ usageRecords' = usageRecords
                      /\ ~hadUsage
                /\ last.val # providerError =>
                      /\ last.val \in {parserError(c) : c \in Contents}
                      /\ prev.ev \in {"invoke_returned", "record_appended"}
                      /\ hadUsage <=> prev.ev = "record_appended"
                      /\ hadUsage =>
                            usageRecords'[n] =
                               Append(usageRecords[n],
                                      [provider |-> llmConfig(n).provider,
                                       model |-> llmConfig(n).model,
                                       tokenUsage |-> Get(prev.usage)])
                      /\ ~hadUsage => usageRecords' = usageRecords]_vars

\* A call failed in the parser and its record is the only one in the ledger;
\* another call failed in invoke.
C32_Witness ==
    /\ ParserThrew(1)
    /\ cur[1] = "A"
    /\ Len(usageRecords["A"]) = 1
    /\ InvokeThrew(2)

\* The number of retrieveBatch calls of the node in use that observed the
\* batch completed
CompletedRetrievals ==
    IF IsSome(bSeen) /\ Get(bSeen).node = bNode THEN Get(bSeen).completed ELSE 0

\* C33: every retrieveBatch that observes the batch completed appends one
\* UsageRecord, also when the batch was already retrieved as completed:
\* after n such retrievals the ledger holds n records, each with the
\* batch's token sums, and getTotalTokenUsage is n times those sums.
C33_EveryCompletedRetrievalRecords ==
    /\ Len(bUsageRecords) = CompletedRetrievals
    /\ HasCompletedResult =>
          LET n == CompletedRetrievals
              inputTokens == ItemTokens(CompletedResults, FALSE)
              outputTokens == ItemTokens(CompletedResults, TRUE)
          IN /\ n >= 1
             /\ \A k \in 1..n :
                   bUsageRecords[k].tokenUsage =
                      [inputTokens |-> inputTokens, outputTokens |-> outputTokens]
             /\ getTotalTokenUsage(bUsageRecords) =
                   [inputTokens |-> n * inputTokens,
                    outputTokens |-> n * outputTokens,
                    totalTokens |-> n * (inputTokens + outputTokens)]

\* The same completed batch was retrieved twice and its tokens count twice.
C33_Witness ==
    /\ HasCompletedResult
    /\ CompletedRetrievals = 2
    /\ Len(bUsageRecords) = 2
    /\ ItemTokens(CompletedResults, FALSE) > 0
    /\ getTotalTokenUsage(bUsageRecords).inputTokens = 2 * ItemTokens(CompletedResults, FALSE)

\* A step in which retrieveBatch failed in the provider's call
RetrieveFailedStep ==
    /\ bError' # bError
    /\ bError' = <<providerError.name, providerError.message>>

\* C34: a retrieveBatch call that returns a status other than completed, or
\* that fails, leaves the node's ledger as it was, so polling a pending
\* batch adds no usage however often it is done.
C34_PendingRetrievalRecordsNothing ==
    [][/\ (RetrieveStep /\ Get(bResult').status # "completed") =>
             bUsageRecords' = bUsageRecords
       /\ RetrieveFailedStep =>
             /\ bUsageRecords' = bUsageRecords
             /\ bResult' = bResult]_vars

\* A pending batch of two requests was polled, a further poll failed, and
\* the ledger is empty.
C34_Witness ==
    /\ IsSome(bResult)
    /\ Get(bResult).status = "in_progress"
    /\ bError = <<"APIError", "500">>
    /\ bInputs = 2
    /\ bUsageRecords = <<>>

\* The provider reported success for p with the empty string as content.
EmptySuccess(p) ==
    /\ p.status = "success"
    /\ p.content = Some("")

\* C35: a provider item with status success whose content is the empty
\* string comes back from retrieveBatch with status success, the empty raw
\* text and no output or error, so the parser was not applied to it; its
\* token usage is kept, and the record the retrieval appended holds the
\* sums over all provider items, this one included.
C35_EmptySuccessNotParsed ==
    HasCompletedResult =>
        /\ \A j \in 1..Len(SeenItems) :
              EmptySuccess(SeenItems[j]) =>
                 /\ ResultsFor(SeenItems[j]) # {}
                 /\ \A k \in ResultsFor(SeenItems[j]) :
                       LET r == CompletedResults[k]
                       IN /\ r.status = "success"
                          /\ ~IsSome(r.output)
                          /\ ~IsSome(r.error)
                          /\ r.rawOutput = Some("")
                          /\ r.tokenUsage = SeenItems[j].tokenUsage
        /\ bUsageRecords # <<>>
        /\ bUsageRecords[Len(bUsageRecords)].tokenUsage =
              [inputTokens |-> ItemTokens(SeenItems, FALSE),
               outputTokens |-> ItemTokens(SeenItems, TRUE)]

\* Both items of a completed batch are successes with empty content that
\* carry usage, and the record counts both.
C35_Witness ==
    /\ HasCompletedResult
    /\ Len(SeenItems) = 2
    /\ \A j \in 1..2 : EmptySuccess(SeenItems[j]) /\ IsSome(SeenItems[j].tokenUsage)
    /\ \A k \in 1..2 : CompletedResults[k].status = "success"
                          /\ ~IsSome(CompletedResults[k].output)
    /\ Len(bUsageRecords) = 1
    /\ bUsageRecords[1].tokenUsage.inputTokens = 2 * MaxTok

\* The calls that wait for their provider on node n
InFlight(n) == {t \in Tasks : pc[t] = "invoking" /\ cur[t] = n}

\* C36: in every interleaving of concurrent execute calls and clears on the
\* nodes, the step in which a call's invoke returns with usage appends
\* exactly one record to that node's ledger and keeps every record already
\* there, and changes no other ledger; a clear that empties a node's ledger
\* leaves the calls in flight as they are and the other ledgers untouched,
\* so the records of calls that complete later are appended to the emptied
\* ledger.
C36_ConcurrentCallsAndClears ==
    [][/\ \A t \in Tasks :
             (pc[t] = "invoking" /\ pc'[t] # "invoking" /\ reported' # reported) =>
                LET n == cur[t]
                IN /\ reported'[n].n = reported[n].n + 1
                   /\ Len(usageRecords'[n]) = Len(usageRecords[n]) + 1
                   /\ SubSeq(usageRecords'[n], 1, Len(usageRecords[n])) = usageRecords[n]
                   /\ usageRecords'[n][Len(usageRecords'[n])].tokenUsage =
                         [inputTokens |-> reported'[n].inputTokens - reported[n].inputTokens,
                          outputTokens |-> reported'[n].outputTokens - reported[n].outputTokens]
                   /\ \A m \in Nodes \ {n} : usageRecords'[m] = usageRecords[m]
                   /\ \A u \in Tasks \ {t} : pc'[u] = pc[u]
       /\ \A n \in Nodes :
             (usageRecords[n] # <<>> /\ usageRecords'[n] = <<>>) =>
                /\ \A m \in Nodes \ {n} : usageRecords'[m] = usageRecords[m]
                /\ pc' = pc
                /\ events' = events
                /\ InFlight(n)' = InFlight(n)
                /\ clearedInFlight' = (InFlight(n) # {})]_vars

\* Two calls on node A were started; after the first had been recorded the
\* ledger was cleared while the second waited for its provider; both are
\* done and the ledger holds one record, the second call's.
C36_Witness ==
    /\ clearedInFlight
    /\ nInvokes = 2
    /\ \A t \in Tasks : pc[t] = "done" /\ cur[t] = "A"
    /\ \A t \in Tasks : \E k \in 1..Len(events[t]) : events[t][k].ev = "record_appended"
    /\ Len(usageRecords["A"]) = 1
    /\ usageRecords["B"] = <<>>
    /\ usageRecords["C"] = <<>>

\* The ledgers of the LLMNode stages named in st, one after the other
RECURSIVE StageRecords(_)
StageRecords(st) ==
    IF st = <<>> THEN <<>>
    ELSE (IF Head(st) \in Nodes THEN usageRecords[Head(st)] ELSE <<>>)
            \o StageRecords(Tail(st))

\* How many stages of the composite x are the node n
Occ(x, n) == Cardinality({k \in 1..Len(Stages(x)) : Stages(x)[k] = n})

\* C37: a composite made by pipe keeps no ledger of its own.  In every
\* state, whatever was executed through the pipeline or on a stage directly
\* and whichever ledgers were cleared, its getUsageRecords() is the stages'
\* ledgers as they are now, each stage's records once for each place the
\* stage has in the pipeline, and its getTotalTokenUsage() is their total;
\* a stage whose ledger is empty has no record in it.
C37_CompositeReadsStagesAtQueryTime ==
    IsSome(built) =>
        LET x == Get(built)
            records == pipeGetUsageRecords(x)
        IN /\ records = StageRecords(Stages(x))
           /\ pipeGetTotalTokenUsage(x) = getTotalTokenUsage(StageRecords(Stages(x)))
           /\ \A n \in Nodes :
                 Cardinality({k \in 1..Len(records) :
                                 records[k].provider = llmConfig(n).provider})
                    = Occ(x, n) * Len(usageRecords[n])

\* The pipeline A.pipe(B) has not run; B was executed on its own and the
\* composite reports B's record.
C37_Witness ==
    /\ built = Some(pipe("A", Leaf("B")))
    /\ called[1] = Leaf("B")
    /\ pc[1] = "done"
    /\ usageRecords["A"] = <<>>
    /\ Len(usageRecords["B"]) = 1
    /\ Len(pipeGetUsageRecords(Get(built))) = 1
    /\ pipeGetTotalTokenUsage(Get(built)).totalTokens >= 1

\* The pipeline A.pipe(B) ran to the end with usage in both stages, then B's
\* ledger was cleared, and the composite reports A's record alone.
C37_WitnessCleared ==
    /\ built = Some(pipe("A", Leaf("B")))
    /\ called[1] = Get(built)
    /\ pc[1] = "done"
    /\ \E k \in 1..Len(events[1]) :
          events[1][k].ev = "record_appended" /\ events[1][k].node = "B"
    /\ usageRecords["B"] = <<>>
    /\ Len(pipeGetUsageRecords(Get(built))) = 1
    /\ pipeGetUsageRecords(Get(built)) = usageRecords["A"]

\* The least whole number of four-character groups that cover len characters
CeilQuarter(len) == CHOOSE k \in 0..len : 4 * k >= len /\ (k = 0 \/ 4 * (k - 1) < len)

\* C38: the thinking-token estimate the Anthropic and Bedrock invoke report
\* is never negative: it is max(0, outputTokens - ceil(contentLength / 4))
\* when thinking is configured and the vendor returned usage, and 0
\* otherwise; hence it never exceeds the returned outputTokens.
C38_ThinkingEstimateClamped ==
    IsSome(mResponse) =>
        LET response == Get(mResponse)
            returned == response.usage
            difference == returned.outputTokens - CeilQuarter(Len(response.content))
        IN  /\ returned.thinkingTokens >= 0
            /\ returned.thinkingTokens <= returned.outputTokens
            /\ IF Get(mConfig).thinking /\ IsSome(response.raw.usage)
               THEN /\ difference >= 0 => returned.thinkingTokens = difference
                    /\ difference < 0 => returned.thinkingTokens = 0
               ELSE returned.thinkingTokens = 0

\* Thinking is configured and the content estimate exceeds the output count
\* the vendor returned: the estimate is clamped to zero.
C38_Witness ==
    /\ IsSome(mResponse)
    /\ Get(mConfig).thinking
    /\ IsSome(Get(mResponse).raw.usage)
    /\ Get(mResponse).usage.outputTokens = 1
    /\ Len(Get(mResponse).content) = 9
    /\ Get(mResponse).usage.thinkingTokens = 0

\* Thinking is configured and the output count exceeds the content estimate
C38_WitnessPositive ==
    /\ IsSome(mResponse)
    /\ Get(mConfig).thinking
    /\ Get(mResponse).usage.outputTokens = 3
    /\ Len(Get(mResponse).content) = 5
    /\ Get(mResponse).usage.thinkingTokens = 1

====
